---- MODULE Spec2Model ----
(***************************************************************************)
(* Dual-reviewer orchestration engine of lad_mcp_server:                   *)
(*   review_service.py  (orchestrator, single-reviewer runner, tool loop)  *)
(*   serena_bridge.py   (repository tool bridge session)                   *)
(*   path_utils.py      (dangerous-root guard, path resolution)            *)
(*   model_metadata.py / token_budget.py (reviewer configuration)          *)
(*                                                                         *)
(* Paths are sequences of segments (<<>> is the filesystem root).  Texts   *)
(* whose wording matters are strings; texts of which only the size matters *)
(* are lengths.                                                            *)
(***************************************************************************)
EXTENDS Integers, Sequences, FiniteSets, TLC

VARIABLES
    env,        \* process environment: CODEX_WORKSPACE_ROOT, service default root, cwd, .serena marker
    settings,   \* Settings fields the engine reads
    req,        \* the request handed to _run_dual_review
    meta,       \* what the models client answers for each reviewer's model id
    opc,        \* position of _run_dual_review
    root,       \* resolved_root
    cfg,        \* ReviewerConfig per reviewer (or NoCfg)
    task,       \* position of each _run_single_reviewer task
    loop,       \* locals of _tool_loop per reviewer
    session,    \* SerenaContext per reviewer
    requests,   \* completion requests issued per reviewer
    msgs,       \* conversation (messages list) per reviewer
    executed,   \* bridge tool invocations started per reviewer
    dropped,    \* tool calls of a turn left unexecuted per reviewer
    running,    \* the call_tool running in the worker pool for the loop
    orphans,    \* call_tool invocations still running after their waiter gave up
    lastTool,   \* result of the latest call_tool per reviewer
    outcome,    \* ReviewerOutcome per reviewer (or NoOutcome)
    result,     \* what the request (or the operation under study) returned or raised
    budget,     \* the TokenBudget handed to validate()
    models,     \* OpenRouterModelsClient: its cache, the clock and the fetches made
    worker,     \* a call_tool thread on the primary's session, between its steps
    sem,        \* OpenRouterClient: the value of its semaphore (free permits)
    args        \* the arguments of the function under study (NoArgs in a request)

vars == <<env, settings, req, meta, opc, root, cfg, task, loop, session, requests,
          msgs, executed, dropped, running, orphans, lastTool, outcome, result,
          budget, models, worker, sem, args>>

\* the components a single request does not step through
others == <<budget, models, worker, args>>

components == <<others, sem>>

Reviewers == {"primary", "secondary"}

Other(r) == IF r = "primary" THEN "secondary" ELSE "primary"

None == "<None>"

\* the least element of a non-empty set of integers
Min2(S) == CHOOSE x \in S : \A y \in S : x <= y

Min(a, b) == IF a <= b THEN a ELSE b

Max(a, b) == IF a >= b THEN a ELSE b

Range(s) == {s[i] : i \in 1..Len(s)}

-----------------------------------------------------------------------------
(* Bounds of the model *)

\* largest tool-call budget (LAD_SERENA_MAX_TOOL_CALLS) explored
MaxBudget == 2

\* largest number of tool calls in one model response
MaxCallsPerTurn == 2

\* longest call sequence applied to a lone bridge session
MaxBridgeCalls == 3

-----------------------------------------------------------------------------
(* Settings defaults (config.py) *)

FixedOutputTokens == 8192

ContextOverheadTokens == 2000

MaxInputChars == 100000

ReviewerTimeoutSeconds == 300

MaxToolResultChars == 12000

MaxTotalChars == 50000

ToolTimeoutSeconds == 30

CHARS_PER_TOKEN_ESTIMATE == 3

FileSectionBuffer == 600

-----------------------------------------------------------------------------
(* The filesystem the model runs on *)

FsRoot == <<>>

HomeDir == <<"home", "u">>

RepoDir == <<"home", "u", "proj">>

RepoSubDir == <<"home", "u", "proj", "src">>

EtcDir == <<"etc">>

Dirs == {FsRoot, <<"home">>, HomeDir, RepoDir, RepoSubDir, EtcDir}

Files == {RepoDir \o <<"a.py">>, RepoSubDir \o <<"b.py">>, EtcDir \o <<"passwd">>,
          HomeDir \o <<"notes.txt">>}

\* an unset directory (no CODEX_WORKSPACE_ROOT, no service default)
NoDir == <<"<unset>">>

\* directories holding a .git or .serena entry
MarkedDirs == {RepoDir}

Parent(p) == IF p = <<>> THEN p ELSE SubSeq(p, 1, Len(p) - 1)

IsPrefix(a, b) == Len(a) <= Len(b) /\ SubSeq(b, 1, Len(a)) = a

RECURSIVE PathStr(_)
PathStr(p) == IF p = <<>> THEN "" ELSE PathStr(Parent(p)) \o "/" \o p[Len(p)]

\* str(Path): the root prints as "/"
StrOfPath(p) == IF p = <<>> THEN "/" ELSE PathStr(p)

\* os.path.commonpath of two absolute paths: their longest common prefix
CommonPath2(a, b) ==
    LET n == CHOOSE k \in 0..Min(Len(a), Len(b)) :
                 /\ SubSeq(a, 1, k) = SubSeq(b, 1, k)
                 /\ \A j \in (k + 1)..Min(Len(a), Len(b)) : SubSeq(a, 1, j) # SubSeq(b, 1, j)
    IN SubSeq(a, 1, n)

RECURSIVE CommonPath(_)
CommonPath(ps) == IF Len(ps) = 1 THEN ps[1] ELSE CommonPath2(ps[1], CommonPath(Tail(ps)))

-----------------------------------------------------------------------------
(* path_utils.py *)

BlockedPrefixes == {<<"etc">>, <<"proc">>, <<"sys">>, <<"dev">>, <<"run">>, <<"var">>,
                    <<"bin">>, <<"sbin">>, <<"lib">>, <<"lib64">>, <<"boot">>}

_is_filesystem_root(p) == Parent(p) = p

\* variant: only the filesystem root and the home directory are dangerous
is_dangerous_repo_root_NoBlocklist(p) == _is_filesystem_root(p) \/ p = HomeDir

is_dangerous_repo_root(p) ==
    \/ _is_filesystem_root(p)
    \/ p = HomeDir
    \/ \E b \in BlockedPrefixes : IsPrefix(b, p)

\* a request path: absolute or relative, as a sequence of parts
\* a directory of the repository that is a symbolic link, and where it points
LinkDir == RepoDir \o <<"link">>

LinkTarget == EtcDir

\* Path.resolve() of an absolute path without ".." parts: symbolic links followed
ResolveLinks(p) ==
    IF IsPrefix(LinkDir, p) THEN LinkTarget \o SubSeq(p, Len(LinkDir) + 1, Len(p)) ELSE p

Resolved(repo, path) == ResolveLinks(IF path.abs THEN path.parts ELSE repo \o path.parts)

\* TRUE when safe_resolve_under_repo raises ValueError
safe_resolve_raises(repo, path) ==
    \/ path.parts = <<>> /\ ~path.abs
    \/ ".." \in Range(path.parts)
    \/ CommonPath2(Resolved(repo, path), repo) # repo

-----------------------------------------------------------------------------
(* serena_bridge.py: the tool bridge session *)

ToolNames == {"activate_project", "list_memories", "read_project_overview", "read_memory",
              "list_dir", "read_file", "search_for_pattern", "find_symbol"}

\* a name no branch of call_tool knows
UnknownTool == "write_file"

\* the shapes an arguments_json string can have
JsonShapes == {"object", "invalid", "nonobject"}

\* args.get("project"): absent or null, a non-string value, or a string
NoArg == [t |-> "none", s |-> ""]

NonStrArg == [t |-> "nonstr", s |-> ""]

StrArg(s) == [t |-> "str", s |-> s]

BlankStrings == {"", "  "}

\* what the filesystem lets an operation do: succeed, fail with a tool error
\* (missing file, bad path, ...), or fail with another exception (OSError)
FsOutcomes == {"ok", "toolerr", "crash"}

MdNames == {"project_overview.md", "notes.md"}

MemoryFilename(name) == IF name \in MdNames THEN name ELSE name \o ".md"

\* SerenaLimits: the caps a session is built with
SerenaLimits(max_tool_result_chars, max_total_chars) ==
    [max_tool_result_chars |-> max_tool_result_chars, max_total_chars |-> max_total_chars]

NewSession(repo, limits) ==
    [repo_root |-> repo,
     limits |-> limits,
     activated_project |-> None,
     used_tools |-> {},
     used_memories |-> {},
     used_paths |-> {},
     total_chars_emitted |-> 0]

\* variant: a bridge without the activation gate
_require_activated_Skip(s) == TRUE

_require_activated(s) == s.activated_project # None

\* variant: no defaulting of a missing, non-string or blank project
ActivateDefaulted_Strict(project) == project.s

\* the project value _activate_project works with after its defaulting
ActivateDefaulted(project) ==
    IF project.t # "str" \/ project.s \in BlankStrings THEN "." ELSE project.s

ActivateAllowed(s) ==
    {".", StrOfPath(s.repo_root), IF s.repo_root = <<>> THEN "" ELSE PathStr(s.repo_root)}

\* TRUE when _activate_project accepts the argument
ActivateAccepts(s, project) == ActivateDefaulted(project) \in ActivateAllowed(s)

\* variant: a refused activation deactivates the session
_activate_project_Resets(s, project) ==
    IF ActivateAccepts(s, project)
    THEN [kind |-> "ok", s |-> [s EXCEPT !.activated_project = ActivateDefaulted(project)]]
    ELSE [kind |-> "toolerr", s |-> [s EXCEPT !.activated_project = None]]

_activate_project(s, project) ==
    IF ActivateAccepts(s, project)
    THEN [kind |-> "ok", s |-> [s EXCEPT !.activated_project = ActivateDefaulted(project)]]
    ELSE [kind |-> "toolerr", s |-> s]

_read_memory(s, name, fs) ==
    CASE fs = "toolerr" -> [kind |-> "toolerr", s |-> s]
      [] fs = "crash" ->
            [kind |-> "crash",
             s |-> [s EXCEPT !.used_memories = @ \cup {MemoryFilename(name)}]]
      [] OTHER ->
            [kind |-> "ok",
             s |-> [s EXCEPT !.used_memories = @ \cup {MemoryFilename(name)}]]

\* _list_dir and _read_file: the path is recorded after the last failing step
PathTool(s, path, fs) ==
    CASE fs = "toolerr" -> [kind |-> "toolerr", s |-> s]
      [] fs = "crash" -> [kind |-> "crash", s |-> s]
      [] OTHER -> [kind |-> "ok", s |-> [s EXCEPT !.used_paths = @ \cup {path}]]

\* _search_for_pattern / _find_symbol: the paths of the matches are recorded
_search_for_pattern(s, matched, fs) ==
    CASE fs = "toolerr" -> [kind |-> "toolerr", s |-> s]
      [] fs = "crash" -> [kind |-> "crash", s |-> s]
      [] OTHER -> [kind |-> "ok", s |-> [s EXCEPT !.used_paths = @ \cup matched]]

_list_memories(s, fs) ==
    IF fs = "crash" THEN [kind |-> "crash", s |-> s] ELSE [kind |-> "ok", s |-> s]

\* a truncation to the per-call cap alone
CappedLen_PerCallOnly(s, len) ==
    Min(len, s.limits.max_tool_result_chars)

\* _cap_and_track: the length of the capped output and the session after it
CappedLen(s, len) ==
    Min(len, Min(s.limits.max_tool_result_chars,
                 Max(s.limits.max_total_chars - s.total_chars_emitted, 0)))

_cap_and_track(s, len) ==
    [s EXCEPT !.total_chars_emitted = @ + CappedLen(s, len)]

\* the branch of call_tool that runs the named operation
Dispatch(s, c, fs) ==
    CASE c.name = "list_memories" -> _list_memories(s, fs)
      [] c.name = "activate_project" -> _activate_project(s, c.project)
      [] c.name = "read_project_overview" -> _read_memory(s, "project_overview", fs)
      [] c.name = "read_memory" -> _read_memory(s, c.arg, fs)
      [] c.name = "list_dir" -> PathTool(s, c.arg, fs)
      [] c.name = "read_file" -> PathTool(s, c.arg, fs)
      [] c.name = "search_for_pattern" -> _search_for_pattern(s, {c.arg}, fs)
      [] c.name = "find_symbol" -> _search_for_pattern(s, {c.arg}, fs)
      [] OTHER -> [kind |-> "toolerr", s |-> s]

\* call_tool(name, arguments_json) on session s, where the filesystem answers fs
\* and the serialized result is len characters long.
\* kind: "ok" (out is returned), "toolerr" (SerenaToolError), "crash" (another exception)
call_tool(s, c, fs, len) ==
    IF c.json # "object"
    THEN [kind |-> "toolerr", s |-> s, out |-> 0, op |-> FALSE]
    ELSE IF c.name # "activate_project" /\ ~_require_activated(s)
    THEN [kind |-> "toolerr", s |-> s, out |-> 0, op |-> FALSE]
    ELSE LET d == Dispatch(s, c, fs)
         IN IF d.kind # "ok"
            THEN [kind |-> d.kind, s |-> d.s, out |-> 0, op |-> c.name \in ToolNames]
            ELSE LET s1 == [d.s EXCEPT !.used_tools = @ \cup {c.name}]
                 IN [kind |-> "ok", s |-> _cap_and_track(s1, len),
                     out |-> CappedLen(s1, len), op |-> TRUE]

\* the filesystem outcomes an operation can meet
FsFor(name) ==
    CASE name = "activate_project" -> {"ok"}
      [] name = "list_memories" -> {"ok", "crash"}
      [] name \in ToolNames -> FsOutcomes
      [] OTHER -> {"ok"}

-----------------------------------------------------------------------------
(* model_metadata.py, token_budget.py *)

\* an optional integer is the empty set (None) or a singleton
TheOne(S) == CHOOSE x \in S : TRUE

\* variant: every model is taken to support tools
supports_tools_Always(m) == TRUE

\* ModelMetadata.supports_tools
supports_tools(m) == "tools" \in m.supported_parameters

effective_context_length(m) ==
    IF m.provider_context_length = {}
    THEN m.context_length
    ELSE Min(m.context_length, TheOne(m.provider_context_length))

effective_output_budget(m, fixed_output_tokens) ==
    IF m.provider_max_completion_tokens = {}
    THEN fixed_output_tokens
    ELSE Min(fixed_output_tokens, TheOne(m.provider_max_completion_tokens))

TokenBudget(m) ==
    [effective_context_length |-> effective_context_length(m),
     effective_output_budget |-> effective_output_budget(m, FixedOutputTokens),
     overhead_tokens |-> ContextOverheadTokens]

input_budget_tokens(b) ==
    b.effective_context_length - b.effective_output_budget - b.overhead_tokens

\* TRUE when TokenBudget.validate() returns without raising
\* variant: only the inequality context > output + overhead is tested
BudgetValid_InequalityOnly(b) == input_budget_tokens(b) > 0

BudgetValid(b) ==
    /\ b.effective_context_length > 0
    /\ b.effective_output_budget > 0
    /\ b.overhead_tokens >= 0
    /\ input_budget_tokens(b) > 0

-----------------------------------------------------------------------------
(* review_service.py: project root and reviewer configuration *)

\* error messages: a format and the number it is filled with
Msg(fmt, n) == [fmt |-> fmt, n |-> n]

WalkUpMaxDepth == 25

\* _walk_up_for_project_root: the nearest marked directory at most max_depth - 1
\* levels above start, else start
_walk_up_for_project_root(start) ==
    LET hits == {k \in 0..Min(Len(start), WalkUpMaxDepth - 1) :
                     SubSeq(start, 1, Len(start) - k) \in MarkedDirs}
    IN IF hits = {}
       THEN start
       ELSE LET k == CHOOSE h \in hits : \A g \in hits : h <= g
            IN SubSeq(start, 1, Len(start) - k)

\* the directory a request path contributes to the inference
AbsDirOf(path) == IF path.parts \in Files THEN Parent(path.parts) ELSE path.parts

_resolve_project_root(e, paths) ==
    LET fallback == IF e.default_root # NoDir THEN e.default_root ELSE e.cwd
    IN IF e.codex_root # NoDir /\ e.codex_root \in Dirs
       THEN e.codex_root
       ELSE IF paths # <<>> /\ \A i \in 1..Len(paths) : paths[i].abs
       THEN LET base == CommonPath([i \in 1..Len(paths) |-> AbsDirOf(paths[i])])
            IN IF base \in Dirs THEN _walk_up_for_project_root(base) ELSE fallback
       ELSE fallback

\* SerenaContext.detect: the repository root holds a .serena directory
HasSerenaDir(e, repo) == e.serena /\ repo = RepoDir

\* the SerenaLimits _prepare_reviewer_config builds from the settings
SettingsLimits == SerenaLimits(MaxToolResultChars, MaxTotalChars)

NoCfg == [model |-> None]

\* TRUE when _prepare_reviewer_config raises for metadata m
\* variant: only the metadata lookup can fail, the budget is not validated
PrepareRaises_MetadataOnly(m) == ~m.found

PrepareRaises(m) == ~m.found \/ ~BudgetValid(TokenBudget(m))

PrepareError(m) ==
    IF ~m.found
    THEN Msg("Model metadata/budget error: model not found in OpenRouter models list", 0)
    ELSE Msg("Model metadata/budget error: invalid token budget", 0)

_prepare_reviewer_config(m, e, repo) ==
    LET tool_calling_supported == supports_tools(m)
        has_ctx == tool_calling_supported /\ HasSerenaDir(e, repo)
    IN [model |-> m.model_id,
        budget |-> TokenBudget(m),
        supported_parameters |-> m.supported_parameters,
        tool_calling_supported |-> tool_calling_supported,
        tool_choice_supported |-> "tool_choice" \in m.supported_parameters,
        has_ctx |-> has_ctx,
        serena_disabled_reason |->
            IF ~tool_calling_supported THEN "Model does not support tool calling"
            ELSE IF ~has_ctx THEN "No .serena directory detected"
            ELSE None]

-----------------------------------------------------------------------------
(* redaction.py: redact_text on the texts the model distinguishes *)

SecretText == "OpenRouter request failed: sk-0123456789abcdef0123"

RedactedText == "OpenRouter request failed: [REDACTED]"

redact_text(t) == IF t = SecretText THEN RedactedText ELSE t

-----------------------------------------------------------------------------
(* review_service.py: one reviewer run *)

NoError == Msg(None, 0)

\* exceptions a completion call can raise: [cls, msg]
CompletionExceptions ==
    {[cls |-> "OpenRouterClientError", msg |-> "OpenRouter request timed out"],
     [cls |-> "OpenRouterClientError", msg |-> SecretText],
     [cls |-> "Exception", msg |-> ""]}

\* exceptions an operation of the bridge can raise besides SerenaToolError
ToolCrash == [cls |-> "PermissionError", msg |-> "Permission denied"]

PathValueError == [cls |-> "ValueError", msg |-> "path is outside repo root or traverses"]

NoExc == [cls |-> None, msg |-> ""]

\* raised by asyncio.timeout when the reviewer deadline passes
ReviewerTimeoutError == [cls |-> "TimeoutError", msg |-> ""]

_exc_message(exc) == IF exc.msg \in BlankStrings THEN exc.cls ELSE exc.msg

NoCall == [id |-> 0, name |-> None, json |-> "object", project |-> NoArg, arg |-> ""]

Call(name, json, project, arg) ==
    [id |-> 0, name |-> name, json |-> json, project |-> project, arg |-> arg]

\* the tool calls a model response is built from
ModelCalls ==
    {Call("activate_project", "object", StrArg("."), ""),
     Call("activate_project", "object", StrArg("other-project"), ""),
     Call("read_project_overview", "object", NoArg, ""),
     Call("read_file", "object", NoArg, "a.py")}

\* the texts a model response can carry
Contents == {"", "## Summary"}

\* length of a serialized tool result in a reviewer run
OutLens == {40000}

\* the tool calls of one response, numbered in order
Numbered(cs) == [i \in 1..Len(cs) |-> [cs[i] EXCEPT !.id = i]]

RECURSIVE SeqsUpTo(_, _)
SeqsUpTo(S, n) ==
    IF n = 0 THEN {<<>>}
    ELSE SeqsUpTo(S, n - 1) \cup
         {Append(q, x) : q \in {t \in SeqsUpTo(S, n - 1) : Len(t) = n - 1}, x \in S}

ToolCallLists == {Numbered(cs) : cs \in SeqsUpTo(ModelCalls, MaxCallsPerTurn) \ {<<>>}}

InlineTools == {"activate_project", "read_project_overview"}

\* variant: the tool message does not carry the id of its call
_build_tool_message_NoId(id, name, content) ==
    [role |-> "tool", name |-> name, id |-> 0, kind |-> content.kind, error |-> content.error]

\* the tool message for call id of tool name; content is the tool's output or its
\* error payload, [kind, error]
_build_tool_message(id, name, content) ==
    [role |-> "tool", name |-> name, id |-> id, kind |-> content.kind, error |-> content.error]

_build_system_message(kind) ==
    [role |-> "system", name |-> "", id |-> 0, kind |-> kind, error |-> NoError]

_build_user_message(kind) ==
    [role |-> "user", name |-> "", id |-> 0, kind |-> kind, error |-> NoError]

\* _run_tool_sync: the output of call_tool, or the payload {"error": str(exc)} of
\* the SerenaToolError it raised
_run_tool_sync(res) ==
    IF res.kind = "ok"
    THEN [kind |-> "out", error |-> NoError]
    ELSE [kind |-> "error", error |-> Msg("<SerenaToolError>", 0)]

\* variant: a timeout reported like a failure of the tool itself
ToolTimeoutPayload_AsToolError(tool_timeout_seconds) ==
    [kind |-> "error", error |-> Msg("<SerenaToolError>", 0)]

\* the payload {"error": "tool call timed out after {tool_timeout_seconds}s"}
ToolTimeoutPayload(tool_timeout_seconds) ==
    [kind |-> "timeout", error |-> Msg("tool call timed out after {n}s", tool_timeout_seconds)]

\* variant: every returned body carries the note on unavailable tools
Body_NoteAlways(content, note) ==
    [kind |-> "body", content |-> content, note |-> TRUE, error |-> NoError]

NoOutcome == [done |-> FALSE]

Body(content, note) == [kind |-> "body", content |-> content, note |-> note, error |-> NoError]

_format_reviewer_error(error) ==
    [kind |-> "error_block", content |-> "", note |-> FALSE, error |-> error]

UsedSerena(c, s) ==
    c.has_ctx /\ (s.used_tools # {} \/ s.used_memories # {} \/ s.used_paths # {})

\* the ReviewerOutcome of a run whose tool loop returned markdown
OutcomeOk(c, s, markdown) ==
    [done |-> TRUE, ok |-> TRUE, model |-> c.model,
     used_serena |-> UsedSerena(c, s),
     serena_disabled_reason |-> c.serena_disabled_reason,
     serena_activated_project |-> IF c.has_ctx THEN s.activated_project ELSE None,
     serena_used_tools |-> IF c.has_ctx THEN s.used_tools ELSE {},
     serena_used_memories |-> IF c.has_ctx THEN s.used_memories ELSE {},
     serena_used_paths |-> IF c.has_ctx THEN s.used_paths ELSE {},
     markdown |-> markdown, error |-> NoError]

TimeoutMessage == Msg("Reviewer timed out after {n}s", ReviewerTimeoutSeconds)

\* the ReviewerOutcome of the `except Exception` branch
OutcomeFailed(c, exc) ==
    [done |-> TRUE, ok |-> FALSE, model |-> c.model,
     used_serena |-> FALSE,
     serena_disabled_reason |-> c.serena_disabled_reason,
     serena_activated_project |-> None,
     serena_used_tools |-> {}, serena_used_memories |-> {}, serena_used_paths |-> {},
     markdown |-> _format_reviewer_error(Msg(_exc_message(exc), 0)),
     error |-> Msg(_exc_message(exc), 0)]

\* variant: the timeout handled by the generic `except Exception` branch
OutcomeTimeout_Generic(c, s) == OutcomeFailed(c, ReviewerTimeoutError)

\* the ReviewerOutcome of the `except TimeoutError` branch
OutcomeTimeout(c, s) ==
    [OutcomeOk(c, s, _format_reviewer_error(TimeoutMessage)) EXCEPT
        !.ok = FALSE, !.error = TimeoutMessage]

max_user_chars(c) ==
    Min(MaxInputChars, Max(input_budget_tokens(c.budget), 1) * CHARS_PER_TOKEN_ESTIMATE)

remaining_for_files(c, q) == Max(max_user_chars(c) - q.prompt_len - FileSectionBuffer, 0)

\* TRUE when the file embedding of _run_single_reviewer is attempted
EmbedsFiles(c, q) == q.paths # <<>> /\ remaining_for_files(c, q) > 0

\* TRUE when FileContextBuilder.build raises for the request's paths
BuildRaises(repo, q) == \E i \in 1..Len(q.paths) : safe_resolve_raises(repo, q.paths[i])

\* the length of the assembled user prompt before truncation
AssembledLen(c, q) == q.prompt_len + (IF EmbedsFiles(c, q) THEN q.files_len ELSE 0)

\* variant: did_force_project_overview is never set
NextRequest_OverviewRepeated(c, s, lp) ==
    LET preflight == lp.tools /\ c.has_ctx /\ lp.remaining > 0
        forced(name) == IF c.tool_choice_supported THEN name ELSE "auto"
    IN [req |-> [tools |-> lp.tools,
                 tool_choice |-> IF preflight /\ s.activated_project = None
                                 THEN forced("activate_project")
                                 ELSE IF preflight THEN forced("read_project_overview")
                                 ELSE IF lp.tools THEN "auto" ELSE None],
        lp |-> lp]

\* variant: the tool list is offered on every request of a run that has a bridge
NextRequest_ToolsKept(c, s, lp) ==
    [req |-> [tools |-> c.has_ctx, tool_choice |-> IF c.has_ctx THEN "auto" ELSE None],
     lp |-> lp]

\* the tool choice of the next completion request and the loop locals after choosing it
NextRequest(c, s, lp) ==
    LET preflight == lp.tools /\ c.has_ctx /\ lp.remaining > 0
        forced(name) == IF c.tool_choice_supported THEN name ELSE "auto"
    IN IF preflight /\ s.activated_project = None
       THEN [req |-> [tools |-> lp.tools, tool_choice |-> forced("activate_project")],
             lp |-> lp]
       ELSE IF preflight /\ ~lp.did_force_project_overview
       THEN [req |-> [tools |-> lp.tools, tool_choice |-> forced("read_project_overview")],
             lp |-> [lp EXCEPT !.did_force_project_overview = TRUE]]
       ELSE [req |-> [tools |-> lp.tools, tool_choice |-> IF lp.tools THEN "auto" ELSE None],
             lp |-> lp]

-----------------------------------------------------------------------------
(* review_service.py: _run_single_reviewer and _tool_loop as steps *)

inputs == <<env, settings, req, meta>>

NoLast == [n |-> 0, call |-> NoCall, kind |-> None, out |-> 0, op |-> FALSE, pre |-> None]

\* lastTool after call_tool returned res for call c on session s
Last(old, c, s, res) ==
    [n |-> old.n + 1, call |-> c, kind |-> res.kind, out |-> res.out, op |-> res.op,
     pre |-> s.activated_project]

\* variant: the run ends without handing an outcome to the orchestrator
EndRun_NoOutcome(r, oc, caught) ==
    /\ outcome' = outcome
    /\ task' = [task EXCEPT ![r] = [pc |-> "done", exc |-> caught]]

\* the run of reviewer r returns outcome oc; caught is the exception an except
\* branch of _run_single_reviewer handled (NoExc on the normal return)
EndRun(r, oc, caught) ==
    /\ outcome' = [outcome EXCEPT ![r] = oc]
    /\ task' = [task EXCEPT ![r] = [pc |-> "done", exc |-> caught]]

\* the loop of reviewer r sends its next completion request
\* variant: a semaphore that never makes a caller wait
SemaphoreFree_Always(value, r) == TRUE

\* asyncio.Semaphore.acquire returns at once: the value is positive and no other
\* task waits for the semaphore
SemaphoreFree(value, r) ==
    value > 0 /\ \A o \in Reviewers \ {r} : task[o].pc # "acquiring"

\* the loop of reviewer r calls chat_completion for its next request while the
\* semaphore stands at value: the request is sent, or the task waits for a permit
Issue(r, s, lp, value) ==
    LET nr == NextRequest(cfg[r], s, lp)
        free == SemaphoreFree(value, r)
    IN /\ requests' = [requests EXCEPT ![r] = Append(@, nr.req)]
       /\ loop' = [loop EXCEPT ![r] = nr.lp]
       /\ task' = [task EXCEPT ![r] =
                      [pc |-> IF free THEN "awaiting" ELSE "acquiring", exc |-> NoExc]]
       /\ sem' = IF free THEN value - 1 ELSE value

\* a task waiting in `async with self._get_semaphore()` gets its permit and sends
\* its request
SemaphoreAcquired(r) ==
    /\ task[r].pc = "acquiring"
    /\ sem > 0
    /\ sem' = sem - 1
    /\ task' = [task EXCEPT ![r] = [pc |-> "awaiting", exc |-> NoExc]]
    /\ UNCHANGED <<inputs, others, opc, root, cfg, loop, session, requests, msgs, executed,
                   dropped, running, orphans, lastTool, outcome, result>>

\* the task of reviewer r runs up to its first completion request
StartReviewer(r) ==
    /\ task[r].pc = "ready"
    /\ IF EmbedsFiles(cfg[r], req) /\ BuildRaises(root, req)
       THEN /\ task' = [task EXCEPT ![r] = [pc |-> "raised", exc |-> PathValueError]]
            /\ UNCHANGED <<loop, requests, msgs, sem>>
       ELSE LET lp == [remaining |-> settings.max_tool_calls,
                       did_force_project_overview |-> FALSE,
                       tools |-> cfg[r].has_ctx,
                       pending |-> <<>>]
                truncated == AssembledLen(cfg[r], req) > max_user_chars(cfg[r])
            IN /\ msgs' = [msgs EXCEPT ![r] =
                       <<_build_system_message("prompt"),
                         _build_user_message(IF truncated THEN "truncated" ELSE "full")>>]
               /\ Issue(r, session[r], lp, sem)
    /\ UNCHANGED <<inputs, others, opc, root, cfg, session, executed, dropped, running, orphans,
                   lastTool, outcome, result>>

\* the completion call returns a response without tool calls
CompletionReturnsText(r) ==
    /\ task[r].pc = "awaiting"
    /\ \E content \in Contents :
          EndRun(r, OutcomeOk(cfg[r], session[r], Body(content, FALSE)), NoExc)
    /\ sem' = sem + 1
    /\ UNCHANGED <<inputs, others, opc, root, cfg, loop, session, requests, msgs, executed, dropped,
                   running, orphans, lastTool, result>>

\* the completion call returns a response with tool calls
CompletionReturnsToolCalls(r) ==
    /\ task[r].pc = "awaiting"
    /\ \E calls \in {l \in ToolCallLists : Len(l) <= env.turn_max}, content \in Contents :
          IF ~cfg[r].has_ctx \/ ~loop[r].tools
          THEN /\ EndRun(r, OutcomeOk(cfg[r], session[r], Body(content, TRUE)), NoExc)
               /\ sem' = sem + 1
               /\ UNCHANGED <<loop, requests, msgs>>
          ELSE IF loop[r].remaining <= 0
          THEN /\ content = ""
               /\ msgs' = [msgs EXCEPT ![r] = Append(@, _build_system_message("finalize"))]
               /\ Issue(r, session[r], [loop[r] EXCEPT !.tools = FALSE], sem + 1)
               /\ UNCHANGED outcome
          ELSE /\ content = ""
               /\ loop' = [loop EXCEPT ![r].pending = calls]
               /\ task' = [task EXCEPT ![r] = [pc |-> "tools", exc |-> NoExc]]
               /\ sem' = sem + 1
               /\ UNCHANGED <<requests, msgs, outcome>>
    /\ UNCHANGED <<inputs, others, opc, root, cfg, session, executed, dropped, running, orphans,
                   lastTool, result>>

\* variant: a call that raises keeps its permit
CompletionRaises_KeepsPermit(r) ==
    /\ task[r].pc = "awaiting"
    /\ \E exc \in CompletionExceptions : EndRun(r, OutcomeFailed(cfg[r], exc), exc)
    /\ sem' = sem
    /\ UNCHANGED <<inputs, others, opc, root, cfg, loop, session, requests, msgs, executed, dropped,
                   running, orphans, lastTool, result>>

\* the completion call raises
CompletionRaises(r) ==
    /\ task[r].pc = "awaiting"
    /\ \E exc \in CompletionExceptions : EndRun(r, OutcomeFailed(cfg[r], exc), exc)
    /\ sem' = sem + 1
    /\ UNCHANGED <<inputs, others, opc, root, cfg, loop, session, requests, msgs, executed, dropped,
                   running, orphans, lastTool, result>>

\* variant: a for loop that never breaks on the spent budget
BudgetSpent_Never(lp) == FALSE

\* `if remaining_tool_calls <= 0: break` at the head of the for loop
BudgetSpent(lp) == lp.remaining <= 0

\* one iteration of `for tool_call in result.tool_calls`, or the end of that loop
ProcessToolCall(r) ==
    /\ task[r].pc = "tools"
    /\ LET lp == loop[r]
       IN IF lp.pending = <<>> \/ BudgetSpent(lp)
          THEN /\ dropped' = [dropped EXCEPT ![r] = @ + Len(lp.pending)]
               /\ Issue(r, session[r], [lp EXCEPT !.pending = <<>>], sem)
               /\ UNCHANGED <<session, msgs, executed, running, lastTool, outcome>>
          ELSE LET c == Head(lp.pending)
                   lp1 == [lp EXCEPT !.pending = Tail(@), !.remaining = @ - 1]
               IN /\ executed' = [executed EXCEPT ![r] = @ + 1]
                  /\ UNCHANGED <<dropped, requests, sem>>
                  /\ IF c.name \in InlineTools
                     THEN \E fs \in FsFor(c.name), len \in OutLens :
                            LET res == call_tool(session[r], c, fs, len)
                            IN /\ session' = [session EXCEPT ![r] = res.s]
                               /\ lastTool' = [lastTool EXCEPT ![r] = Last(@, c, session[r], res)]
                               /\ UNCHANGED running
                               /\ IF res.kind = "crash"
                                  THEN /\ EndRun(r, OutcomeFailed(cfg[r], ToolCrash), ToolCrash)
                                       /\ loop' = [loop EXCEPT ![r] = lp1]
                                       /\ UNCHANGED msgs
                                  ELSE /\ msgs' = [msgs EXCEPT ![r] = Append(@,
                                              _build_tool_message(c.id, c.name,
                                                                  _run_tool_sync(res)))]
                                       /\ loop' = [loop EXCEPT ![r] = lp1]
                                       /\ UNCHANGED <<task, outcome>>
                     ELSE /\ running' = [running EXCEPT ![r] = c]
                          /\ loop' = [loop EXCEPT ![r] = lp1]
                          /\ task' = [task EXCEPT ![r] = [pc |-> "tool_wait", exc |-> NoExc]]
                          /\ UNCHANGED <<session, msgs, lastTool, outcome>>
    /\ UNCHANGED <<inputs, others, opc, root, cfg, orphans, result>>

\* variant: both reviewers hold one and the same SerenaContext
ToolReturns_SharedSession(r) ==
    /\ task[r].pc = "tool_wait"
    /\ \E fs \in FsFor(running[r].name), len \in OutLens :
          LET c == running[r]
              res == call_tool(session[r], c, fs, len)
          IN /\ session' = [o \in Reviewers |-> res.s]
             /\ lastTool' = [lastTool EXCEPT ![r] = Last(@, c, session[r], res)]
             /\ running' = [running EXCEPT ![r] = NoCall]
             /\ IF res.kind = "crash"
                THEN /\ EndRun(r, OutcomeFailed(cfg[r], ToolCrash), ToolCrash)
                     /\ UNCHANGED msgs
                ELSE /\ msgs' = [msgs EXCEPT ![r] = Append(@,
                            _build_tool_message(c.id, c.name, _run_tool_sync(res)))]
                     /\ task' = [task EXCEPT ![r] = [pc |-> "tools", exc |-> NoExc]]
                     /\ UNCHANGED outcome
    /\ UNCHANGED <<inputs, components, opc, root, cfg, loop, requests, executed, dropped, orphans, result>>

\* the call_tool running in the worker pool finishes within the tool timeout
ToolReturns(r) ==
    /\ task[r].pc = "tool_wait"
    /\ \E fs \in FsFor(running[r].name), len \in OutLens :
          LET c == running[r]
              res == call_tool(session[r], c, fs, len)
          IN /\ session' = [session EXCEPT ![r] = res.s]
             /\ lastTool' = [lastTool EXCEPT ![r] = Last(@, c, session[r], res)]
             /\ running' = [running EXCEPT ![r] = NoCall]
             /\ IF res.kind = "crash"
                THEN /\ EndRun(r, OutcomeFailed(cfg[r], ToolCrash), ToolCrash)
                     /\ UNCHANGED msgs
                ELSE /\ msgs' = [msgs EXCEPT ![r] = Append(@,
                            _build_tool_message(c.id, c.name, _run_tool_sync(res)))]
                     /\ task' = [task EXCEPT ![r] = [pc |-> "tools", exc |-> NoExc]]
                     /\ UNCHANGED outcome
    /\ UNCHANGED <<inputs, components, opc, root, cfg, loop, requests, executed, dropped, orphans, result>>

\* asyncio.wait_for gives up on the running call_tool; its thread keeps running
ToolTimesOut(r) ==
    /\ task[r].pc = "tool_wait"
    /\ msgs' = [msgs EXCEPT ![r] =
                   Append(@, _build_tool_message(running[r].id, running[r].name,
                                                 ToolTimeoutPayload(ToolTimeoutSeconds)))]
    /\ orphans' = [orphans EXCEPT ![r] = Append(@, running[r])]
    /\ running' = [running EXCEPT ![r] = NoCall]
    /\ task' = [task EXCEPT ![r] = [pc |-> "tools", exc |-> NoExc]]
    /\ UNCHANGED <<inputs, components, opc, root, cfg, loop, session, requests, executed, dropped,
                   lastTool, outcome, result>>

RemoveAt(q, i) == SubSeq(q, 1, i - 1) \o SubSeq(q, i + 1, Len(q))

\* a call_tool whose waiter gave up runs to its end on the session
OrphanFinishes(r) ==
    /\ \E i \in 1..Len(orphans[r]) : \E fs \in FsFor(orphans[r][i].name), len \in OutLens :
          LET c == orphans[r][i]
              res == call_tool(session[r], c, fs, len)
          IN /\ session' = [session EXCEPT ![r] = res.s]
             /\ lastTool' = [lastTool EXCEPT ![r] = Last(@, c, session[r], res)]
             /\ orphans' = [orphans EXCEPT ![r] = RemoveAt(@, i)]
    /\ UNCHANGED <<inputs, components, opc, root, cfg, task, loop, requests, msgs, executed, dropped,
                   running, outcome, result>>

\* the tasks positions at which a task is suspended in an await
Suspended == {"acquiring", "awaiting", "tool_wait"}

\* running and orphans of reviewer r once its waiting task is torn down
Abandon(r) ==
    IF task[r].pc = "tool_wait"
    THEN /\ orphans' = [orphans EXCEPT ![r] = Append(@, running[r])]
         /\ running' = [running EXCEPT ![r] = NoCall]
    ELSE UNCHANGED <<orphans, running>>

\* asyncio.timeout(reviewer_timeout_seconds) fires
ReviewerTimeout(r) ==
    /\ task[r].pc \in Suspended
    /\ EndRun(r, OutcomeTimeout(cfg[r], session[r]), ReviewerTimeoutError)
    /\ Abandon(r)
    /\ sem' = IF task[r].pc = "awaiting" THEN sem + 1 ELSE sem
    /\ UNCHANGED <<inputs, others, opc, root, cfg, loop, session, requests, msgs, executed, dropped,
                   lastTool, result>>

-----------------------------------------------------------------------------
(* review_service.py: _run_dual_review *)

ValidationError(msg) == [cls |-> "ValidationError", msg |-> msg]

RuntimeError(msg) == [cls |-> "RuntimeError", msg |-> msg]

NoResult == [kind |-> "none"]

Raised(exc) == [kind |-> "raised", exc |-> exc]

\* variant: the secondary reviewer is launched whatever its model setting
Launched_Both == Reviewers

\* the reviewers _run_dual_review launches
Launched == IF settings.secondary_enabled THEN Reviewers ELSE {"primary"}

\* variant: admission without the project root guard
AdmissionError_NoRootCheck(q, repo) ==
    IF q.text = None /\ q.paths = <<>>
    THEN ValidationError("Either code or paths must be provided")
    ELSE NoExc

\* the validation error of lines 236-265, or NoExc
AdmissionError(q, repo) ==
    IF q.text # None /\ redact_text(q.text) \in BlankStrings
    THEN ValidationError("Content is empty after sanitization")
    ELSE IF q.text = None /\ q.paths = <<>>
    THEN ValidationError("Either code or paths must be provided")
    ELSE IF q.paths # <<>> /\ is_dangerous_repo_root(repo)
    THEN ValidationError("paths resolve to an unsafe project root")
    ELSE NoExc

\* input redaction, required-field checks, project root resolution and its guard
Validate ==
    /\ opc = "start"
    /\ LET repo == _resolve_project_root(env, req.paths)
           err == AdmissionError(req, repo)
       IN IF err # NoExc
          THEN /\ opc' = "raised"
               /\ result' = Raised(err)
               /\ UNCHANGED root
          ELSE /\ opc' = "validated"
               /\ root' = repo
               /\ UNCHANGED result
    /\ UNCHANGED <<inputs, components, cfg, task, loop, session, requests, msgs, executed, dropped,
                   running, orphans, lastTool, outcome>>

\* primary_cfg = self._prepare_reviewer_config(primary_model, ...)
PreparePrimary ==
    /\ opc = "validated"
    /\ IF PrepareRaises(meta["primary"])
       THEN /\ opc' = "raised"
            /\ result' = Raised(RuntimeError(PrepareError(meta["primary"]).fmt))
            /\ UNCHANGED <<cfg, session>>
       ELSE /\ opc' = "primary_ready"
            /\ cfg' = [cfg EXCEPT !["primary"] = _prepare_reviewer_config(meta["primary"], env, root)]
            /\ session' = [session EXCEPT !["primary"] = NewSession(root, SettingsLimits)]
            /\ UNCHANGED result
    /\ UNCHANGED <<inputs, components, root, task, loop, requests, msgs, executed, dropped, running,
                   orphans, lastTool, outcome>>

\* secondary_cfg = self._prepare_reviewer_config(...) if secondary_enabled else None
PrepareSecondary ==
    /\ opc = "primary_ready"
    /\ IF settings.secondary_enabled /\ PrepareRaises(meta["secondary"])
       THEN /\ opc' = "raised"
            /\ result' = Raised(RuntimeError(PrepareError(meta["secondary"]).fmt))
            /\ UNCHANGED <<cfg, session>>
       ELSE /\ opc' = "configured"
            /\ IF settings.secondary_enabled
               THEN /\ cfg' = [cfg EXCEPT !["secondary"] =
                                  _prepare_reviewer_config(meta["secondary"], env, root)]
                    /\ session' = [session EXCEPT !["secondary"] = NewSession(root, SettingsLimits)]
               ELSE UNCHANGED <<cfg, session>>
            /\ UNCHANGED result
    /\ UNCHANGED <<inputs, components, root, task, loop, requests, msgs, executed, dropped, running,
                   orphans, lastTool, outcome>>

\* asyncio.create_task for each launched reviewer, then the await
Launch ==
    /\ opc = "configured"
    /\ opc' = "awaiting"
    /\ task' = [r \in Reviewers |->
                   IF r \in Launched THEN [pc |-> "ready", exc |-> NoExc] ELSE task[r]]
    /\ UNCHANGED <<inputs, components, root, cfg, loop, session, requests, msgs, executed, dropped,
                   running, orphans, lastTool, outcome, result>>

-----------------------------------------------------------------------------
(* review_service.py: synthesis; markdown.py: aggregation and egress redaction *)

\* the head sentence, the error messages and the notes of the synthesized summary
Summary(head, errors, notes) == [head |-> head, errors |-> errors, notes |-> notes]

SerenaNote(who, oc) ==
    IF oc.used_serena THEN <<who \o " reviewer used Serena-backed context.">>
    ELSE IF oc.serena_disabled_reason # None
    THEN <<who \o " reviewer Serena context disabled: " \o oc.serena_disabled_reason>>
    ELSE <<>>

\* variant: a synthesis that never quotes an error
_synthesize_NoErrors(primary, secondary) == Summary("Both reviewers failed.", <<>>, <<>>)

_synthesize(primary, secondary) ==
    IF ~secondary.done
    THEN IF primary.ok
         THEN Summary("Only Primary review is provided (secondary reviewer disabled).", <<>>, <<>>)
         ELSE Summary("Primary reviewer failed:", <<primary.error>>, <<>>)
    ELSE IF primary.ok /\ secondary.ok
    THEN Summary("Primary and Secondary reviews are provided.", <<>>,
                 SerenaNote("Primary", primary) \o SerenaNote("Secondary", secondary))
    ELSE IF primary.ok /\ ~secondary.ok
    THEN Summary("Only Primary review is available. Secondary reviewer failed:",
                 <<secondary.error>>, <<>>)
    ELSE IF ~primary.ok /\ secondary.ok
    THEN Summary("Only Secondary review is available. Primary reviewer failed:",
                 <<primary.error>>, <<>>)
    ELSE Summary("Both reviewers failed.", <<primary.error, secondary.error>>, <<>>)

\* variant: the Serena note is written for successful reviewers only
_append_disclosure_NoteOnSuccess(oc) ==
    [markdown |-> oc.markdown,
     model |-> oc.model,
     used_serena |-> oc.used_serena,
     activated |-> IF oc.used_serena THEN oc.serena_activated_project ELSE None,
     tools |-> IF oc.used_serena THEN oc.serena_used_tools ELSE {},
     memories |-> IF oc.used_serena THEN oc.serena_used_memories ELSE {},
     paths |-> IF oc.used_serena THEN oc.serena_used_paths ELSE {},
     note |-> IF oc.ok THEN oc.serena_disabled_reason ELSE None]

\* the reviewer's markdown followed by the disclosure lines
_append_disclosure(oc) ==
    [markdown |-> oc.markdown,
     model |-> oc.model,
     used_serena |-> oc.used_serena,
     activated |-> IF oc.used_serena THEN oc.serena_activated_project ELSE None,
     tools |-> IF oc.used_serena THEN oc.serena_used_tools ELSE {},
     memories |-> IF oc.used_serena THEN oc.serena_used_memories ELSE {},
     paths |-> IF oc.used_serena THEN oc.serena_used_paths ELSE {},
     note |-> oc.serena_disabled_reason]

RedactMsg(m) == [m EXCEPT !.fmt = redact_text(@)]

RedactSection(sec) ==
    [sec EXCEPT !.markdown.error = RedactMsg(@), !.markdown.content = redact_text(@)]

\* format_aggregated_output: the sections of the document, the secondary's only
\* when a secondary markdown is given (secondary_markdown is <<>> or <<md>>)
format_aggregated_output(primary_markdown, secondary_markdown, synthesized_summary) ==
    [kind |-> "doc",
     sections |-> IF secondary_markdown = <<>>
                  THEN <<"Primary Reviewer", "Synthesized Summary">>
                  ELSE <<"Primary Reviewer", "Secondary Reviewer", "Synthesized Summary">>,
     primary |-> primary_markdown,
     secondary |-> secondary_markdown,
     summary |-> synthesized_summary]

\* variant: the aggregated document returned as it is
final_egress_redaction_Skip(markdown) == markdown

\* final_egress_redaction: redact_text over the whole document
final_egress_redaction(markdown) ==
    [markdown EXCEPT
        !.primary = RedactSection(@),
        !.secondary = [i \in 1..Len(@) |-> RedactSection(@[i])],
        !.summary = [@ EXCEPT !.errors = [i \in 1..Len(@) |-> RedactMsg(@[i])]]]

\* the return statements of _run_dual_review: synthesize, aggregate, redact
Aggregated(primary, secondary) ==
    final_egress_redaction(
        format_aggregated_output(
            _append_disclosure(primary),
            IF secondary.done THEN <<_append_disclosure(secondary)>> ELSE <<>>,
            _synthesize(primary, secondary)))

\* both awaited tasks returned their outcomes: synthesize, aggregate, redact, return
Aggregate ==
    /\ opc = "awaiting"
    /\ \A r \in Launched : task[r].pc = "done"
    /\ opc' = "returned"
    /\ result' = Aggregated(outcome["primary"],
                            IF settings.secondary_enabled THEN outcome["secondary"] ELSE NoOutcome)
    /\ UNCHANGED <<inputs, components, root, cfg, task, loop, session, requests, msgs, executed, dropped,
                   running, orphans, lastTool, outcome>>

\* an awaited task raised: the await re-raises its exception to the caller
GatherRaises ==
    /\ opc = "awaiting"
    /\ \E r \in Launched :
          /\ task[r].pc = "raised"
          /\ result' = Raised(task[r].exc)
    /\ opc' = "raised"
    /\ UNCHANGED <<inputs, components, root, cfg, task, loop, session, requests, msgs, executed, dropped,
                   running, orphans, lastTool, outcome>>

\* asyncio.wait_for(_run(), timeout=openrouter_tool_call_timeout_seconds) fires:
\* the awaited reviewer tasks are cancelled and the caller gets a RuntimeError
RequestDeadline ==
    /\ opc = "awaiting"
    /\ \A r \in Launched : task[r].pc \in Suspended \cup {"done"}
    /\ opc' = "raised"
    /\ result' = Raised(RuntimeError("Tool call timed out"))
    /\ task' = [r \in Reviewers |->
                   IF r \in Launched /\ task[r].pc \in Suspended
                   THEN [pc |-> "cancelled", exc |-> NoExc]
                   ELSE task[r]]
    /\ orphans' = [r \in Reviewers |->
                      IF task[r].pc = "tool_wait" THEN Append(orphans[r], running[r])
                      ELSE orphans[r]]
    /\ running' = [r \in Reviewers |-> NoCall]
    /\ sem' = sem + Cardinality({r \in Launched : task[r].pc = "awaiting"})
    /\ UNCHANGED <<inputs, others, root, cfg, loop, session, requests, msgs, executed, dropped,
                   lastTool, outcome>>

-----------------------------------------------------------------------------
(* Inputs *)

RelPath(parts) == [abs |-> FALSE, parts |-> parts]

AbsPath(parts) == [abs |-> TRUE, parts |-> parts]

\* the paths lists of the requests explored (<<>>: no paths)
PathLists ==
    {<<>>,
     <<RelPath(<<"a.py">>)>>,
     <<RelPath(<<"..", "x.py">>)>>,
     <<AbsPath(EtcDir \o <<"passwd">>)>>,
     <<AbsPath(RepoDir \o <<"a.py">>), AbsPath(RepoSubDir \o <<"b.py">>)>>}

\* model records the metadata client can answer with
Metadata(found, context_length, params) ==
    [model_id |-> "model", found |-> found, context_length |-> context_length,
     provider_context_length |-> {}, provider_max_completion_tokens |-> {},
     supported_parameters |-> params]

MetaMissing == Metadata(FALSE, 0, {})

\* context window equal to output reservation plus overhead: no input budget
MetaTooSmall == Metadata(TRUE, FixedOutputTokens + ContextOverheadTokens, {"max_tokens"})

\* an input budget of 100 tokens
MetaTight == Metadata(TRUE, FixedOutputTokens + ContextOverheadTokens + 100, {"max_tokens"})

MetaPlain == Metadata(TRUE, 200000, {"max_tokens"})

MetaTools == Metadata(TRUE, 200000, {"tools", "max_tokens"})

MetaToolChoice == Metadata(TRUE, 200000, {"tools", "tool_choice", "max_tokens"})

MetaUnused == Metadata(FALSE, 0, {"<disabled>"})

\* metadata of both reviewers; the secondary's is not looked at when it is disabled
MetaPairs(enabled, S) ==
    {[r \in Reviewers |-> IF r = "primary" THEN p ELSE s] :
        p \in S, s \in IF enabled THEN S ELSE {MetaUnused}}

\* wide environments and requests, one reviewer without tools
InitAdmission ==
    /\ env \in [codex_root : {NoDir, RepoDir, EtcDir},
                default_root : {NoDir, RepoSubDir},
                cwd : {HomeDir, FsRoot, RepoDir},
                serena : {FALSE}, turn_max : {1}]
    /\ settings = [secondary_enabled |-> FALSE, max_tool_calls |-> 0,
                   max_concurrent_requests |-> 1]
    /\ req \in {q \in [text : {None, "ok", "  "}, paths : PathLists, prompt_len : {200, 99800},
                       files_len : {500}] : q.paths = <<>> => q.prompt_len = 200}
    /\ meta \in MetaPairs(FALSE, {MetaTight, MetaPlain})

\* every metadata answer for one or two reviewers without tools
InitConfiguration ==
    /\ env = [codex_root |-> NoDir, default_root |-> RepoDir, cwd |-> HomeDir,
              serena |-> FALSE, turn_max |-> 1]
    /\ settings \in [secondary_enabled : BOOLEAN, max_tool_calls : {0},
                    max_concurrent_requests : {1, 2}]
    /\ req \in [text : {"ok"}, paths : {<<>>, <<RelPath(<<"a.py">>)>>, <<RelPath(<<"..", "x.py">>)>>},
                prompt_len : {200}, files_len : {500}]
    /\ meta \in MetaPairs(settings.secondary_enabled,
                          {MetaMissing, MetaTooSmall, MetaTight, MetaPlain, MetaTools})

\* one reviewer, every tool capability and budget, with or without the .serena marker
InitToolLoop ==
    /\ env \in [codex_root : {NoDir}, default_root : {RepoDir}, cwd : {HomeDir},
                serena : BOOLEAN, turn_max : {MaxCallsPerTurn}]
    /\ settings \in [secondary_enabled : {FALSE}, max_tool_calls : 0..MaxBudget,
                    max_concurrent_requests : {1}]
    /\ req \in [text : {"ok"}, paths : {<<>>}, prompt_len : {200}, files_len : {500}]
    /\ meta \in MetaPairs(FALSE, {MetaPlain, MetaTools, MetaToolChoice})

\* two reviewers that both use the tool bridge, one tool call per turn
InitDualTools ==
    /\ env = [codex_root |-> NoDir, default_root |-> RepoDir, cwd |-> HomeDir,
              serena |-> TRUE, turn_max |-> 1]
    /\ settings \in [secondary_enabled : {TRUE}, max_tool_calls : {1},
                    max_concurrent_requests : {1, 2}]
    /\ req \in [text : {"ok"}, paths : {<<>>}, prompt_len : {200}, files_len : {500}]
    /\ meta \in MetaPairs(TRUE, {MetaToolChoice})

\* no TokenBudget under validation
NoBudget == [effective_context_length |-> 0, effective_output_budget |-> 0,
             overhead_tokens |-> 0]

\* OpenRouterModelsClient.__init__: nothing cached; the clock at 0, no fetch made
NoModels == [has_cache |-> FALSE, cached |-> {}, cache_at |-> 0, now |-> 0, fetches |-> 0]

\* no call_tool thread between its steps
NoWorker == [pc |-> "idle", call |-> NoCall, capped |-> 0, loaded |-> 0]

\* the components at rest
NoArgs == [fn |-> None]

AtRest ==
    /\ budget = NoBudget
    /\ models = NoModels
    /\ worker = NoWorker
    /\ sem = settings.max_concurrent_requests
    /\ args = NoArgs

\* no request has run yet
BlankRequest ==
    /\ root = NoDir
    /\ cfg = [r \in Reviewers |-> NoCfg]
    /\ task = [r \in Reviewers |-> [pc |-> "none", exc |-> NoExc]]
    /\ loop = [r \in Reviewers |->
                  [remaining |-> 0, did_force_project_overview |-> FALSE, tools |-> FALSE,
                   pending |-> <<>>]]
    /\ session = [r \in Reviewers |-> NewSession(NoDir, SettingsLimits)]
    /\ requests = [r \in Reviewers |-> <<>>]
    /\ msgs = [r \in Reviewers |-> <<>>]
    /\ executed = [r \in Reviewers |-> 0]
    /\ dropped = [r \in Reviewers |-> 0]
    /\ running = [r \in Reviewers |-> NoCall]
    /\ orphans = [r \in Reviewers |-> <<>>]
    /\ lastTool = [r \in Reviewers |-> NoLast]
    /\ outcome = [r \in Reviewers |-> NoOutcome]
    /\ result = NoResult

\* the state before _run_dual_review starts
Idle == opc = "start" /\ BlankRequest /\ AtRest

Init ==
    /\ InitAdmission \/ InitConfiguration \/ InitToolLoop \/ InitDualTools
    /\ Idle

Next ==
    \/ Validate
    \/ PreparePrimary
    \/ PrepareSecondary
    \/ Launch
    \/ \E r \in Reviewers : StartReviewer(r)
    \/ \E r \in Reviewers : CompletionReturnsText(r)
    \/ \E r \in Reviewers : CompletionReturnsToolCalls(r)
    \/ \E r \in Reviewers : CompletionRaises(r)
    \/ \E r \in Reviewers : ProcessToolCall(r)
    \/ \E r \in Reviewers : ToolReturns(r)
    \/ \E r \in Reviewers : ToolTimesOut(r)
    \/ \E r \in Reviewers : OrphanFinishes(r)
    \/ \E r \in Reviewers : ReviewerTimeout(r)
    \/ \E r \in Reviewers : SemaphoreAcquired(r)
    \/ Aggregate
    \/ GatherRaises
    \/ RequestDeadline

Spec == Init /\ [][Next]_vars

\* a step of the run of reviewer r: its task is scheduled, a completion call or a
\* tool invocation returns, raises or times out, or the reviewer deadline fires
RunStep(r) ==
    \/ StartReviewer(r)
    \/ CompletionReturnsText(r)
    \/ CompletionReturnsToolCalls(r)
    \/ CompletionRaises(r)
    \/ ProcessToolCall(r)
    \/ ToolReturns(r)
    \/ ToolTimesOut(r)
    \/ ReviewerTimeout(r)
    \/ SemaphoreAcquired(r)

\* requests that pass the admission checks and launch their reviewers
\* one reviewer with any budget, or two reviewers; one tool call per turn, the
\* case in which a budget lasts for the most turns
InitSingleRun(budgets) ==
    /\ env \in [codex_root : {NoDir}, default_root : {RepoDir}, cwd : {HomeDir},
                serena : BOOLEAN, turn_max : {1}]
    /\ settings \in [secondary_enabled : {FALSE}, max_tool_calls : budgets,
                    max_concurrent_requests : {1}]
    /\ req \in [text : {"ok"}, paths : {<<>>}, prompt_len : {200}, files_len : {500}]
    /\ meta \in MetaPairs(FALSE, {MetaPlain, MetaTools, MetaToolChoice})

InitRuns ==
    /\ InitSingleRun(0..(MaxBudget + 1)) \/ InitDualTools
    /\ Idle

InitFair ==
    /\ InitSingleRun(0..MaxBudget) \/ InitDualTools
    /\ Idle

NextRuns ==
    \/ Validate
    \/ PreparePrimary
    \/ PrepareSecondary
    \/ Launch
    \/ \E r \in Reviewers : StartReviewer(r)
    \/ \E r \in Reviewers : CompletionReturnsText(r)
    \/ \E r \in Reviewers : CompletionReturnsToolCalls(r)
    \/ \E r \in Reviewers : CompletionRaises(r)
    \/ \E r \in Reviewers : ProcessToolCall(r)
    \/ \E r \in Reviewers : ToolReturns(r)
    \/ \E r \in Reviewers : ToolTimesOut(r)
    \/ \E r \in Reviewers : OrphanFinishes(r)
    \/ \E r \in Reviewers : ReviewerTimeout(r)
    \/ \E r \in Reviewers : SemaphoreAcquired(r)
    \/ Aggregate
    \/ RequestDeadline

SpecRuns == InitRuns /\ [][NextRuns]_vars

\* every call that was started returns or times out, and the event loop runs
\* every task that is ready
SpecFair == InitFair /\ [][NextRuns]_vars /\ \A r \in Reviewers : WF_vars(RunStep(r))

-----------------------------------------------------------------------------
(* A lone bridge session driven by arbitrary call_tool sequences *)

\* the project arguments tried on activate_project
ProjectArgs ==
    {NoArg, NonStrArg, StrArg(""), StrArg("  "), StrArg("."),
     StrArg(StrOfPath(RepoDir)), StrArg(StrOfPath(RepoDir) \o "/"),
     StrArg(StrOfPath(HomeDir)), StrArg("other-project")}

BridgeCalls ==
    {Call("activate_project", j, p, "") : j \in JsonShapes, p \in ProjectArgs}
    \cup {Call(n, j, NoArg, "") :
             n \in {"list_memories", "read_project_overview", UnknownTool}, j \in JsonShapes}
    \cup {Call("read_memory", "object", NoArg, a) : a \in {"notes", "notes.md"}}
    \cup {Call(n, "object", NoArg, "src") : n \in {"list_dir", "search_for_pattern"}}
    \cup {Call(n, "object", NoArg, "src/b.py") : n \in {"read_file", "find_symbol"}}

\* small caps, so that a few calls exhaust them
BridgeLimits == {SerenaLimits(3, 5), SerenaLimits(4, 3)}

BridgeOutLens == {0, 2, 7}

InitBridge ==
    /\ env = [codex_root |-> NoDir, default_root |-> RepoDir, cwd |-> HomeDir,
              serena |-> TRUE, turn_max |-> 1]
    /\ settings = [secondary_enabled |-> FALSE, max_tool_calls |-> 0,
                   max_concurrent_requests |-> 1]
    /\ req = [text |-> "ok", paths |-> <<>>, prompt_len |-> 200, files_len |-> 500]
    /\ meta = [r \in Reviewers |-> MetaToolChoice]
    /\ opc = "bridge"
    /\ root = RepoDir
    /\ cfg = [r \in Reviewers |-> NoCfg]
    /\ task = [r \in Reviewers |-> [pc |-> "none", exc |-> NoExc]]
    /\ loop = [r \in Reviewers |->
                  [remaining |-> 0, did_force_project_overview |-> FALSE, tools |-> FALSE,
                   pending |-> <<>>]]
    /\ \E l \in BridgeLimits : session = [r \in Reviewers |-> NewSession(RepoDir, l)]
    /\ requests = [r \in Reviewers |-> <<>>]
    /\ msgs = [r \in Reviewers |-> <<>>]
    /\ executed = [r \in Reviewers |-> 0]
    /\ dropped = [r \in Reviewers |-> 0]
    /\ running = [r \in Reviewers |-> NoCall]
    /\ orphans = [r \in Reviewers |-> <<>>]
    /\ lastTool = [r \in Reviewers |-> NoLast]
    /\ outcome = [r \in Reviewers |-> NoOutcome]
    /\ result = NoResult
    /\ AtRest

\* SerenaContext.call_tool(name, arguments_json) on the primary's session
BridgeCall ==
    /\ opc = "bridge"
    /\ lastTool["primary"].n < MaxBridgeCalls
    /\ \E c \in BridgeCalls : \E fs \in FsFor(c.name), len \in BridgeOutLens :
          LET res == call_tool(session["primary"], c, fs, len)
          IN /\ session' = [session EXCEPT !["primary"] = res.s]
             /\ lastTool' = [lastTool EXCEPT !["primary"] = Last(@, c, session["primary"], res)]
    /\ UNCHANGED <<inputs, components, opc, root, cfg, task, loop, requests, msgs, executed, dropped,
                   running, orphans, outcome, result>>

SpecBridge == InitBridge /\ [][BridgeCall]_vars

-----------------------------------------------------------------------------
(* A bridge session on which a worker-pool thread left behind by asyncio.wait_for *)
(* runs call_tool once while the tool loop makes its next calls.  The statements *)
(* of _cap_and_track are the thread's steps: the read of the counter that sizes *)
(* the output, the read of `+=`, and the write of `+=`.                          *)

\* the thread runs a call_tool that reads the repository up to the first read of
\* _total_chars_emitted
WorkerBegins ==
    /\ opc = "bridge"
    /\ worker.pc = "idle"
    /\ lastTool["primary"].n < MaxBridgeCalls
    /\ \E c \in {b \in BridgeCalls : b.name \in {"read_file", "search_for_pattern"}} :
          \E fs \in FsFor(c.name), len \in BridgeOutLens :
             LET s == session["primary"]
                 res == call_tool(s, c, fs, len)
             IN /\ res.kind = "ok"
                /\ session' = [session EXCEPT !["primary"] =
                                  [res.s EXCEPT !.total_chars_emitted = s.total_chars_emitted]]
                /\ worker' = [pc |-> "capped", call |-> c, capped |-> res.out, loaded |-> 0]
    /\ UNCHANGED <<inputs, budget, models, sem, args, opc, root, cfg, task, loop, requests, msgs, executed,
                   dropped, running, orphans, lastTool, outcome, result>>

\* the thread reads _total_chars_emitted for `+=`
WorkerLoads ==
    /\ worker.pc = "capped"
    /\ worker' = [worker EXCEPT !.pc = "loaded",
                                !.loaded = session["primary"].total_chars_emitted]
    /\ UNCHANGED <<inputs, budget, models, sem, args, opc, root, cfg, task, loop, session, requests, msgs,
                   executed, dropped, running, orphans, lastTool, outcome, result>>

\* the thread writes _total_chars_emitted and call_tool returns
WorkerStores ==
    /\ worker.pc = "loaded"
    /\ session' = [session EXCEPT
                      !["primary"].total_chars_emitted = worker.loaded + worker.capped]
    /\ lastTool' = [lastTool EXCEPT !["primary"] =
                       Last(@, worker.call, session["primary"],
                            [kind |-> "ok", out |-> worker.capped, op |-> TRUE])]
    /\ worker' = [NoWorker EXCEPT !.pc = "returned"]
    /\ UNCHANGED <<inputs, budget, models, sem, args, opc, root, cfg, task, loop, requests, msgs, executed,
                   dropped, running, orphans, outcome, result>>

SpecBridgeThreads ==
    InitBridge /\ [][BridgeCall \/ WorkerBegins \/ WorkerLoads \/ WorkerStores]_vars

-----------------------------------------------------------------------------
(* token_budget.py: TokenBudget.validate on arbitrary integers *)

\* largest token count tried (the smallest is -1)
MaxTokens == 3

\* inputs of a component studied on its own
FixedInputs ==
    /\ env = [codex_root |-> NoDir, default_root |-> RepoDir, cwd |-> HomeDir,
              serena |-> TRUE, turn_max |-> 1]
    /\ settings = [secondary_enabled |-> TRUE, max_tool_calls |-> 0,
                   max_concurrent_requests |-> 1]
    /\ req = [text |-> "ok", paths |-> <<>>, prompt_len |-> 200, files_len |-> 500]
    /\ meta = [r \in Reviewers |-> MetaToolChoice]

TokenBudgetError == [cls |-> "TokenBudgetError", msg |-> "invalid token budget"]

InitBudget ==
    /\ FixedInputs
    /\ opc = "budget"
    /\ BlankRequest
    /\ budget \in [effective_context_length : -1..MaxTokens,
                   effective_output_budget : -1..MaxTokens,
                   overhead_tokens : -1..MaxTokens]
    /\ models = NoModels
    /\ worker = NoWorker
    /\ sem = settings.max_concurrent_requests
    /\ args = NoArgs

\* budget.validate(), then the read of budget.input_budget_tokens
BudgetValidate ==
    /\ opc = "budget"
    /\ result = NoResult
    /\ result' = IF BudgetValid(budget)
                 THEN [kind |-> "budget", input_budget_tokens |-> input_budget_tokens(budget)]
                 ELSE Raised(TokenBudgetError)
    /\ UNCHANGED <<inputs, components, opc, root, cfg, task, loop, session, requests, msgs,
                   executed, dropped, running, orphans, lastTool, outcome>>

SpecBudget == InitBudget /\ [][BudgetValidate]_vars

-----------------------------------------------------------------------------
(* model_metadata.py: OpenRouterModelsClient.get_model against its cache, the  *)
(* clock and a models endpoint that answers with a list or fails              *)

\* ttl_seconds of the client, in ticks of the clock
TtlSeconds == 2

MaxClock == 4

MaxFetches == 3

ModelMetadataError(msg) == [cls |-> "ModelMetadataError", msg |-> msg]

\* a ModelMetadata of list number v of the endpoint
ListedModel(id, v) == [id |-> id, context_length |-> 1000 * v]

\* what a fetch can give: a transport failure, a payload parse_models_payload
\* rejects, or the models of a list
FetchOutcomes ==
    {<<"failed">>, <<"malformed">>}
    \cup {<<"list", {}>>}
    \cup {<<"list", {ListedModel("model-a", v)}>> : v \in 1..2}
    \cup {<<"list", {ListedModel("model-a", v), ListedModel("model-b", v)}>> : v \in 1..2}

ModelIds == {"model-a", "model-b"}

\* variant: a cache that is never consulted, every call fetches
list_models_NoCache(m, fetched) ==
    IF fetched[1] # "list"
    THEN [kind |-> "raised", m |-> [m EXCEPT !.fetches = @ + 1], list |-> {}, fetch |-> "failed"]
    ELSE [kind |-> "ok",
          m |-> [m EXCEPT !.has_cache = TRUE, !.cached = fetched[2], !.cache_at = m.now,
                          !.fetches = @ + 1],
          list |-> fetched[2], fetch |-> "ok"]

\* variant: a failed fetch answered from whatever the cache still holds
list_models_StaleOnFailure(m, fetched) ==
    IF m.has_cache
    THEN [kind |-> "ok", m |-> m, list |-> m.cached,
          fetch |-> IF m.now - m.cache_at < TtlSeconds THEN "none" ELSE "failed"]
    ELSE IF fetched[1] # "list"
    THEN [kind |-> "raised", m |-> [m EXCEPT !.fetches = @ + 1], list |-> {}, fetch |-> "failed"]
    ELSE [kind |-> "ok",
          m |-> [m EXCEPT !.has_cache = TRUE, !.cached = fetched[2], !.cache_at = m.now,
                          !.fetches = @ + 1],
          list |-> fetched[2], fetch |-> "ok"]

\* list_models on client m when a fetch, if one is made, gives fetched:
\* [kind, m (the client after), list, fetch ("none", "ok" or "failed")]
list_models(m, fetched) ==
    IF m.has_cache /\ m.now - m.cache_at < TtlSeconds
    THEN [kind |-> "ok", m |-> m, list |-> m.cached, fetch |-> "none"]
    ELSE IF fetched[1] # "list"
    THEN [kind |-> "raised", m |-> [m EXCEPT !.fetches = @ + 1], list |-> {}, fetch |-> "failed"]
    ELSE [kind |-> "ok",
          m |-> [m EXCEPT !.has_cache = TRUE, !.cached = fetched[2], !.cache_at = m.now,
                          !.fetches = @ + 1],
          list |-> fetched[2], fetch |-> "ok"]

\* get_model(model_id): what it returns or raises, and the client after
get_model(m, model_id, fetched) ==
    LET l == list_models(m, fetched)
        found == {x \in l.list : x.id = model_id}
    IN IF l.kind = "raised"
       THEN [m |-> l.m,
             res |-> [kind |-> "raised", id |-> model_id, fetch |-> l.fetch,
                      exc |-> ModelMetadataError("OpenRouter models request failed"),
                      model |-> ListedModel(None, 0)]]
       ELSE IF found = {}
       THEN [m |-> l.m,
             res |-> [kind |-> "raised", id |-> model_id, fetch |-> l.fetch,
                      exc |-> ModelMetadataError("Model not found in OpenRouter models list"),
                      model |-> ListedModel(None, 0)]]
       ELSE [m |-> l.m,
             res |-> [kind |-> "metadata", id |-> model_id, fetch |-> l.fetch,
                      exc |-> NoExc, model |-> TheOne(found)]]

InitMetadata ==
    /\ FixedInputs
    /\ opc = "metadata"
    /\ BlankRequest
    /\ AtRest

\* a call of get_model
GetModel ==
    /\ opc = "metadata"
    /\ models.fetches < MaxFetches
    /\ \E model_id \in ModelIds, fetched \in FetchOutcomes :
          LET g == get_model(models, model_id, fetched)
          IN /\ models' = g.m
             /\ result' = g.res
    /\ UNCHANGED <<inputs, budget, worker, sem, args, opc, root, cfg, task, loop, session, requests,
                   msgs, executed, dropped, running, orphans, lastTool, outcome>>

\* time.time() advances
ClockTicks ==
    /\ opc = "metadata"
    /\ models.now < MaxClock
    /\ models' = [models EXCEPT !.now = @ + 1]
    /\ UNCHANGED <<inputs, budget, worker, sem, args, opc, root, cfg, task, loop, session, requests,
                   msgs, executed, dropped, running, orphans, lastTool, outcome, result>>

SpecMetadata == InitMetadata /\ [][GetModel \/ ClockTicks]_vars

-----------------------------------------------------------------------------
(* schemas.py: SystemDesignReviewRequest.validate and CodeReviewRequest.validate *)
(* on the primary text field and the paths; the other fields are left unset     *)

ReviewTools == {"system_design_review", "code_review"}

\* the primary text field of a review operation
direct_required(tool) == IF tool = "system_design_review" THEN "proposal" ELSE "code"

\* a paths argument that is a list
ListArg(items) == [t |-> "list", s |-> items]

\* _require_non_blank: the message of the ValidationError it raises, or None
_require_non_blank(value, field_name) ==
    IF value.t # "str" THEN field_name \o " must be a string"
    ELSE IF value.s \in BlankStrings THEN field_name \o " must not be blank"
    ELSE None

\* the checks of validate on the primary text field
TextError(tool, text, max_input_chars) ==
    IF text.t = "none" THEN None
    ELSE IF _require_non_blank(text, direct_required(tool)) # None
    THEN _require_non_blank(text, direct_required(tool))
    ELSE IF tool = "system_design_review" /\ Len(text.s) < 10
    THEN "proposal must be at least 10 characters"
    ELSE IF Len(text.s) > max_input_chars
    THEN direct_required(tool) \o " must be <= OPENROUTER_MAX_INPUT_CHARS"
    ELSE None

\* the checks of validate on paths
PathsError(paths) ==
    IF paths.t = "none" THEN None
    ELSE IF paths.t # "list" \/ Len(paths.s) = 0
    THEN "paths must be a non-empty list of strings when provided"
    ELSE LET bad == {i \in 1..Len(paths.s) : _require_non_blank(paths.s[i], "paths[]") # None}
         IN IF bad = {} THEN None
            ELSE _require_non_blank(paths.s[Min2(bad)], "paths[]")

\* variant: a validation without the either-or check
EitherError_Skip(tool, text, paths) == None

\* `if proposal is None and not paths` / `if code is None and not paths`
EitherError(tool, text, paths) ==
    IF text.t = "none" /\ paths.t = "none"
    THEN "Either " \o direct_required(tool) \o " or paths must be provided"
    ELSE None

\* validate: the request it returns or the ValidationError it raises
validate(tool, text, paths, max_input_chars) ==
    LET errs == <<TextError(tool, text, max_input_chars), PathsError(paths),
                  EitherError(tool, text, paths)>>
        first == {i \in 1..3 : errs[i] # None}
    IN IF first # {}
       THEN Raised(ValidationError(errs[Min2(first)]))
       ELSE [kind |-> "request", tool |-> tool,
             text |-> IF text.t = "none" THEN None ELSE text.s,
             paths |-> IF paths.t = "none" THEN <<>>
                       ELSE [i \in 1..Len(paths.s) |-> paths.s[i].s]]

SchemaTexts ==
    {NoArg, NonStrArg, StrArg(""), StrArg("  "), StrArg("x = 1"), StrArg("use a queue here")}

SchemaPaths ==
    {NoArg, NonStrArg, ListArg(<<>>), ListArg(<<StrArg("a.py")>>), ListArg(<<StrArg("  ")>>),
     ListArg(<<StrArg("a.py"), StrArg("")>>), ListArg(<<NonStrArg>>),
     ListArg(<<StrArg("a.py"), StrArg("b.py")>>)}

InitSchemas ==
    /\ FixedInputs
    /\ opc = "schemas"
    /\ BlankRequest
    /\ budget = NoBudget
    /\ models = NoModels
    /\ worker = NoWorker
    /\ sem = settings.max_concurrent_requests
    /\ args \in [fn : {"validate"}, tool : ReviewTools, text : SchemaTexts, paths : SchemaPaths,
                 max_input_chars : {12, MaxInputChars}]

\* the first statement of system_design_review / code_review
SchemaValidate ==
    /\ opc = "schemas"
    /\ result = NoResult
    /\ result' = validate(args.tool, args.text, args.paths, args.max_input_chars)
    /\ UNCHANGED <<inputs, components, opc, root, cfg, task, loop, session, requests, msgs,
                   executed, dropped, running, orphans, lastTool, outcome>>

SpecSchemas == InitSchemas /\ [][SchemaValidate]_vars

-----------------------------------------------------------------------------
(* path_utils.py: safe_resolve_under_repo on path strings, on POSIX and on Windows. *)
(* A path string is a sequence of tokens: names, "..", ".", a drive ("C:"), and   *)
(* the characters "/" and "\".  A Windows path is modelled with its drive as its  *)
(* first part.                                                                    *)

Platforms == {"posix", "nt"}

\* the characters pathlib takes as separators on a platform
Seps(os) == IF os = "nt" THEN {"/", "\\"} ELSE {"/"}

Drives == {"C:", "D:"}

\* the names between separators; cur is the name read so far
RECURSIVE SplitParts(_, _, _)
SplitParts(os, toks, cur) ==
    IF toks = <<>> THEN (IF cur = "" THEN <<>> ELSE <<cur>>)
    ELSE IF Head(toks) \in Seps(os)
    THEN (IF cur = "" THEN <<>> ELSE <<cur>>) \o SplitParts(os, Tail(toks), "")
    ELSE SplitParts(os, Tail(toks), cur \o Head(toks))

\* pathlib drops the "." parts
RECURSIVE DropDots(_)
DropDots(parts) ==
    IF parts = <<>> THEN <<>>
    ELSE IF Head(parts) = "." THEN DropDots(Tail(parts))
    ELSE <<Head(parts)>> \o DropDots(Tail(parts))

\* _looks_like_windows_absolute: a drive-letter path or a UNC path
_looks_like_windows_absolute(toks) ==
    /\ Len(toks) >= 2
    /\ \/ toks[1] \in Drives /\ toks[2] \in {"/", "\\"}
       \/ toks[1] = "\\" /\ toks[2] = "\\"

\* Path(path_str) on a platform, joined to the drive of repo when it is rooted
\* without a drive: [abs, parts]
ParsePath(os, repo, toks) ==
    LET parts == DropDots(SplitParts(os, toks, ""))
    IN IF os = "posix"
       THEN [abs |-> Head(toks) = "/", parts |-> parts]
       ELSE IF Len(toks) >= 2 /\ toks[1] \in Drives /\ toks[2] \in Seps(os)
       THEN [abs |-> TRUE, parts |-> parts]
       ELSE IF Len(toks) >= 2 /\ toks[1] \in Seps(os) /\ toks[2] \in Seps(os)
       THEN [abs |-> TRUE, parts |-> <<"\\\\">> \o parts]
       ELSE IF Head(toks) \in Seps(os)
       THEN [abs |-> TRUE, parts |-> <<Head(repo)>> \o parts]
       ELSE [abs |-> FALSE, parts |-> parts]

\* variant: a resolution that only refuses what resolves outside the root
HasDotDot_Never(parts) == FALSE

\* `".." in p.parts`
HasDotDot(parts) == ".." \in Range(parts)

\* safe_resolve_under_repo(repo_root, path_str): the resolved path or the error;
\* cls is the class of the error (SerenaToolError for the bridge's wrapper)
safe_resolve_under_repo(os, repo, toks, cls) ==
    IF toks = <<>>
    THEN Raised([cls |-> cls, msg |-> "path must be a non-empty string"])
    ELSE IF os # "nt" /\ _looks_like_windows_absolute(toks)
    THEN Raised([cls |-> cls, msg |-> "windows absolute paths are not supported on this platform"])
    ELSE LET p == ParsePath(os, repo, toks)
         IN IF HasDotDot(p.parts)
            THEN Raised([cls |-> cls, msg |-> "path traversal is not allowed"])
            ELSE IF CommonPath2(Resolved(repo, p), repo) # repo
            THEN Raised([cls |-> cls, msg |-> "path is outside repo root"])
            ELSE [kind |-> "path", path |-> Resolved(repo, p)]

\* the path strings tried
PathStrings ==
    {<<>>,
     <<"a.py">>, <<".", "/", "a.py">>, <<"src", "/", "b.py">>, <<"src", "\\", "b.py">>,
     <<"..", "/", "x.py">>, <<"..", "\\", "x.py">>,
     <<"src", "/", "..", "/", "..", "/", "x.py">>,
     <<"link", "/", "passwd">>,
     <<"/", "etc", "/", "passwd">>,
     <<"/", "home", "/", "u", "/", "proj", "/", "a.py">>,
     <<"/", "home", "/", "u", "/", "proj", "/", "..", "/", "x.py">>,
     <<"C:", "\\", "home", "\\", "u", "\\", "proj", "\\", "a.py">>,
     <<"C:", "\\", "home", "\\", "u", "\\", "proj", "\\", "..", "\\", "x.py">>,
     <<"C:", "\\", "Windows", "\\", "x">>,
     <<"D:", "/", "home", "/", "u", "/", "proj", "/", "a.py">>,
     <<"\\", "\\", "srv", "\\", "share">>}

\* the repository roots: on Windows they sit on drive C:
RepoRoots(os) ==
    IF os = "nt" THEN {<<"C:">> \o RepoDir, <<"C:">> \o RepoSubDir} ELSE {RepoDir, RepoSubDir}

InitPaths ==
    /\ FixedInputs
    /\ opc = "paths"
    /\ BlankRequest
    /\ budget = NoBudget
    /\ models = NoModels
    /\ worker = NoWorker
    /\ sem = settings.max_concurrent_requests
    /\ \E os \in Platforms :
          args \in [fn : {"safe_resolve_under_repo"}, os : {os}, repo_root : RepoRoots(os),
                    path_str : PathStrings, cls : {"ValueError", "SerenaToolError"}]

\* safe_resolve_under_repo called by the file embedding (ValueError) or by the
\* bridge's _safe_resolve_under_repo (SerenaToolError)
SafeResolve ==
    /\ opc = "paths"
    /\ result = NoResult
    /\ result' = safe_resolve_under_repo(args.os, args.repo_root, args.path_str, args.cls)
    /\ UNCHANGED <<inputs, components, opc, root, cfg, task, loop, session, requests, msgs,
                   executed, dropped, running, orphans, lastTool, outcome>>

SpecPaths == InitPaths /\ [][SafeResolve]_vars

-----------------------------------------------------------------------------
(* serena_bridge.py: _read_file on an existing file of the repository, given as *)
(* its lines 1..n and whether its size is above max_bytes                        *)

MaxLines == 4

\* args.get("head") / args.get("tail") holding an int
IntArg(n) == [t |-> "int", n |-> n]

SerenaToolError(msg) == [cls |-> "SerenaToolError", msg |-> msg]

\* the line "[NOTE: Middle of file omitted due to size.]"
OmittedMarker == 0

\* lines[:k]
FirstLines(lines, k) == SubSeq(lines, 1, Min(k, Len(lines)))

\* the lines a deque(maxlen=k) keeps, and lines[-k:] for k > 0
LastLines(lines, k) == SubSeq(lines, Len(lines) - Min(k, Len(lines)) + 1, Len(lines))

\* the content read from a file above max_bytes, head_n or tail_n being an int
LargeContent(lines, head, tail) ==
    LET head_lines == IF head.t = "int" THEN FirstLines(lines, head.n) ELSE <<>>
        has_tail == tail.t = "int" /\ tail.n # 0
    IN head_lines
       \o (IF has_tail /\ head.t = "int" THEN <<OmittedMarker>> ELSE <<>>)
       \o (IF has_tail THEN LastLines(lines, tail.n) ELSE <<>>)

\* the content read from a file of at most max_bytes
SmallContent(lines, head, tail) ==
    LET headed == IF head.t = "int" THEN FirstLines(lines, head.n) ELSE lines
    IN IF tail.t # "int" THEN headed
       ELSE IF tail.n = 0 THEN <<>>
       ELSE LastLines(headed, tail.n)

\* _read_file(path, head, tail) once the path is resolved to a file
_read_file(lines, large, head, tail) ==
    IF head.t = "int" /\ head.n < 0 THEN Raised(SerenaToolError("head must be >= 0"))
    ELSE IF tail.t = "int" /\ tail.n < 0 THEN Raised(SerenaToolError("tail must be >= 0"))
    ELSE IF large /\ head.t # "int" /\ tail.t # "int"
    THEN Raised(SerenaToolError("file is too large to read without head/tail"))
    ELSE [kind |-> "content",
          content |-> IF large THEN LargeContent(lines, head, tail)
                      ELSE SmallContent(lines, head, tail)]

LineCounts == {NoArg, NonStrArg} \cup {IntArg(n) : n \in (-1)..MaxLines}

InitReadFile ==
    /\ FixedInputs
    /\ opc = "read_file"
    /\ BlankRequest
    /\ budget = NoBudget
    /\ models = NoModels
    /\ worker = NoWorker
    /\ sem = settings.max_concurrent_requests
    /\ \E n \in 0..MaxLines :
          args \in [fn : {"_read_file"}, lines : {[i \in 1..n |-> i]}, large : BOOLEAN,
                    head : LineCounts, tail : LineCounts]

ReadFile ==
    /\ opc = "read_file"
    /\ result = NoResult
    /\ result' = _read_file(args.lines, args.large, args.head, args.tail)
    /\ UNCHANGED <<inputs, components, opc, root, cfg, task, loop, session, requests, msgs,
                   executed, dropped, running, orphans, lastTool, outcome>>

SpecReadFile == InitReadFile /\ [][ReadFile]_vars

-----------------------------------------------------------------------------
(* config.py: Settings.from_env, the two timeouts *)

DefaultReviewerTimeout == 300

ToolCallTimeoutMargin == 60

ValueError(msg) == [cls |-> "ValueError", msg |-> msg]

\* os.getenv(name): unset, "", a text that int() refuses, or the text of an integer
EnvInt(n) == [t |-> "int", n |-> n]

EnvValues ==
    {[t |-> "unset"], [t |-> "empty"], [t |-> "text"]}
        \cup {EnvInt(n) : n \in {-1, 0, 1, 2,
                                 DefaultReviewerTimeout - 1, DefaultReviewerTimeout,
                                 DefaultReviewerTimeout + 1,
                                 DefaultReviewerTimeout + ToolCallTimeoutMargin - 1,
                                 DefaultReviewerTimeout + ToolCallTimeoutMargin,
                                 DefaultReviewerTimeout + ToolCallTimeoutMargin + 1}}

\* _get_int(name, default): the value, or the ValueError of a non-integer text
_get_int(raw, name, default) ==
    IF raw.t \in {"unset", "empty"} THEN [kind |-> "int", n |-> default]
    ELSE IF raw.t = "text" THEN Raised(ValueError(Msg("{name} must be an integer", name)))
    ELSE [kind |-> "int", n |-> raw.n]

\* variant: a request timeout below the reviewer timeout is accepted
TimeoutOrderError_Skip(tool_call_timeout, reviewer_timeout) ==
    FALSE

\* if tool_call_timeout < reviewer_timeout: raise ValueError(...)
TimeoutOrderError(tool_call_timeout, reviewer_timeout) ==
    tool_call_timeout < reviewer_timeout

\* Settings.from_env restricted to OPENROUTER_REVIEWER_TIMEOUT_SECONDS and
\* OPENROUTER_TOOL_CALL_TIMEOUT_SECONDS, every other variable being acceptable
from_env(reviewer_raw, tool_raw) ==
    LET reviewer == _get_int(reviewer_raw, "OPENROUTER_REVIEWER_TIMEOUT_SECONDS",
                             DefaultReviewerTimeout)
    IN IF reviewer.kind = "raised" THEN reviewer
       ELSE IF reviewer.n <= 0
       THEN Raised(ValueError("OPENROUTER_REVIEWER_TIMEOUT_SECONDS must be > 0"))
       ELSE LET tool == _get_int(tool_raw, "OPENROUTER_TOOL_CALL_TIMEOUT_SECONDS",
                                 reviewer.n + ToolCallTimeoutMargin)
            IN IF tool.kind = "raised" THEN tool
               ELSE IF tool.n <= 0
               THEN Raised(ValueError("OPENROUTER_TOOL_CALL_TIMEOUT_SECONDS must be > 0"))
               ELSE IF TimeoutOrderError(tool.n, reviewer.n)
               THEN Raised(ValueError("OPENROUTER_TOOL_CALL_TIMEOUT_SECONDS must be >= OPENROUTER_REVIEWER_TIMEOUT_SECONDS"))
               ELSE [kind |-> "settings",
                     openrouter_reviewer_timeout_seconds |-> reviewer.n,
                     openrouter_tool_call_timeout_seconds |-> tool.n]

InitSettings ==
    /\ FixedInputs
    /\ opc = "settings"
    /\ BlankRequest
    /\ budget = NoBudget
    /\ models = NoModels
    /\ worker = NoWorker
    /\ sem = settings.max_concurrent_requests
    /\ args \in [fn : {"from_env"}, reviewer : EnvValues, tool : EnvValues]

FromEnv ==
    /\ opc = "settings"
    /\ result = NoResult
    /\ result' = from_env(args.reviewer, args.tool)
    /\ UNCHANGED <<inputs, components, opc, root, cfg, task, loop, session, requests, msgs,
                   executed, dropped, running, orphans, lastTool, outcome>>

SpecSettings == InitSettings /\ [][FromEnv]_vars

-----------------------------------------------------------------------------
(* review_service.py: the timeout _tool_loop gives to each completion call *)

MaxReviewerTimeout == 120

OPENROUTER_CALL_TIMEOUT_SAFETY_MARGIN_SECONDS == 5

\* call_timeout_seconds = max(int(reviewer_timeout_seconds) - margin, 1)
call_timeout_seconds(reviewer_timeout_seconds) ==
    Max(reviewer_timeout_seconds - OPENROUTER_CALL_TIMEOUT_SAFETY_MARGIN_SECONDS, 1)

\* every reviewer timeout Settings.from_env accepts, up to MaxReviewerTimeout
InitCallTimeout ==
    /\ FixedInputs
    /\ opc = "call_timeout"
    /\ BlankRequest
    /\ budget = NoBudget
    /\ models = NoModels
    /\ worker = NoWorker
    /\ sem = settings.max_concurrent_requests
    /\ \E t \in 1..MaxReviewerTimeout :
          /\ from_env(EnvInt(t), [t |-> "unset"]).kind = "settings"
          /\ args = [fn |-> "call_timeout_seconds", reviewer_timeout_seconds |-> t]

CallTimeout ==
    /\ opc = "call_timeout"
    /\ result = NoResult
    /\ result' = [kind |-> "int", n |-> call_timeout_seconds(args.reviewer_timeout_seconds)]
    /\ UNCHANGED <<inputs, components, opc, root, cfg, task, loop, session, requests, msgs,
                   executed, dropped, running, orphans, lastTool, outcome>>

SpecCallTimeout == InitCallTimeout /\ [][CallTimeout]_vars

-----------------------------------------------------------------------------
(* review_service.py: truncation of the assembled user prompt, on lengths *)

MaxPromptTokens == 30

\* len("\n\n[NOTE: Input truncated to fit model context window.]\n")
TruncationNoteLen == 55

\* _truncate_to_chars(text, max_chars): the length kept and whether text was cut
_truncate_to_chars(len, max_chars) ==
    [len |-> Min(len, max_chars), truncated |-> len > max_chars]

\* the user prompt after truncation: its length, the characters kept of the
\* assembled prompt, and whether the truncation note ends it
UserPrompt(len, max_chars) ==
    LET t == _truncate_to_chars(len, max_chars)
        kept == IF t.truncated /\ t.len + TruncationNoteLen > max_chars
                THEN Min(t.len, Max(max_chars - TruncationNoteLen, 0))
                ELSE t.len
    IN [len |-> kept + (IF t.truncated THEN TruncationNoteLen ELSE 0),
        kept |-> kept, note |-> t.truncated]

\* a reviewer configuration whose budget leaves n input tokens
CfgWithInputTokens(n) ==
    [budget |-> [effective_context_length |-> n + FixedOutputTokens + ContextOverheadTokens,
                 effective_output_budget |-> FixedOutputTokens,
                 overhead_tokens |-> ContextOverheadTokens]]

InitPrompt ==
    /\ FixedInputs
    /\ opc = "prompt"
    /\ BlankRequest
    /\ budget = NoBudget
    /\ models = NoModels
    /\ worker = NoWorker
    /\ sem = settings.max_concurrent_requests
    /\ \E n \in 1..MaxPromptTokens :
          /\ BudgetValid(CfgWithInputTokens(n).budget)
          /\ args \in [fn : {"truncate"}, input_budget_tokens : {n},
                       max_user_chars : {max_user_chars(CfgWithInputTokens(n))},
                       len : 0..(MaxPromptTokens * CHARS_PER_TOKEN_ESTIMATE + 10)]

Truncate ==
    /\ opc = "prompt"
    /\ result = NoResult
    /\ result' = [kind |-> "prompt", user |-> UserPrompt(args.len, args.max_user_chars)]
    /\ UNCHANGED <<inputs, components, opc, root, cfg, task, loop, session, requests, msgs,
                   executed, dropped, running, orphans, lastTool, outcome>>

SpecPrompt == InitPrompt /\ [][Truncate]_vars

-----------------------------------------------------------------------------
(* model_metadata.py: one item of the models payload, parsed, and the budget *)
(* _prepare_reviewer_config derives from it                                   *)

MaxItemTokens == 3

\* a payload field that should hold an integer: {} when it is absent, null or
\* not an integer, {n} when it holds n
OptionalInts == {{}} \cup {{n} : n \in 1..MaxItemTokens}

\* the items explored: top_provider is a dict or not
PayloadItems ==
    [context_length : OptionalInts, top_provider_is_dict : BOOLEAN,
     top_provider_context_length : OptionalInts,
     top_provider_max_completion_tokens : OptionalInts]

\* parse_models_payload on one item with an id: the ModelMetadata, or the error
\* of _require_int
parse_item(item) ==
    IF item.context_length = {}
    THEN Raised(ModelMetadataError("context_length must be an integer"))
    ELSE [kind |-> "metadata",
          m |-> [model_id |-> "model", found |-> TRUE,
                 context_length |-> TheOne(item.context_length),
                 provider_context_length |->
                     IF item.top_provider_is_dict
                     THEN item.top_provider_context_length ELSE {},
                 provider_max_completion_tokens |->
                     IF item.top_provider_is_dict /\ item.top_provider_context_length # {}
                     THEN item.top_provider_max_completion_tokens ELSE {},
                 supported_parameters |-> {}]]

InitItem ==
    /\ FixedInputs
    /\ opc = "item"
    /\ BlankRequest
    /\ budget = NoBudget
    /\ models = NoModels
    /\ worker = NoWorker
    /\ sem = settings.max_concurrent_requests
    /\ args \in [fn : {"parse_item"}, item : PayloadItems,
                 fixed_output_tokens : 1..MaxItemTokens]
    /\ ~args.item.top_provider_is_dict =>
          /\ args.item.top_provider_context_length = {}
          /\ args.item.top_provider_max_completion_tokens = {}

\* the item parsed and the TokenBudget fields taken from the record
ParseItem ==
    /\ opc = "item"
    /\ result = NoResult
    /\ LET p == parse_item(args.item)
       IN result' = IF p.kind = "raised" THEN p
                    ELSE [kind |-> "budget",
                          effective_context_length |-> effective_context_length(p.m),
                          effective_output_budget |->
                              effective_output_budget(p.m, args.fixed_output_tokens)]
    /\ UNCHANGED <<inputs, components, opc, root, cfg, task, loop, session, requests, msgs,
                   executed, dropped, running, orphans, lastTool, outcome>>

SpecItem == InitItem /\ [][ParseItem]_vars

-----------------------------------------------------------------------------
(* Properties *)

\* the reviewer's tool loop has started
LoopStarted(r) == requests[r] # <<>>

\* C1: the tool calls executed over a whole reviewer run never exceed the budget N
\* (executed plus remaining budget is always N), and calls of a turn are left
\* unexecuted only when the budget is spent.
C1_SharedBudget ==
    \A r \in Reviewers :
        /\ executed[r] <= settings.max_tool_calls
        /\ LoopStarted(r) => executed[r] + loop[r].remaining = settings.max_tool_calls
        /\ dropped[r] > 0 => executed[r] = settings.max_tool_calls

\* a run of several turns that spent its whole budget and left a call unexecuted
C1_Witness ==
    \E r \in Reviewers :
        /\ settings.max_tool_calls = MaxBudget
        /\ executed[r] = MaxBudget
        /\ dropped[r] > 0
        /\ Len(requests[r]) >= 3

\* the metadata lookup or the budget validation fails for model record m
C2_Fails(m) ==
    \/ ~m.found
    \/ m.context_length - FixedOutputTokens - ContextOverheadTokens <= 0

\* C2: when metadata or budget fails for the primary or an enabled secondary, the
\* request raises and no completion request is issued and no task is started;
\* a task only ever exists once every launched reviewer has its configuration.
C2_FailClosed ==
    /\ (\E r \in Launched : C2_Fails(meta[r])) =>
          /\ \A r \in Reviewers : requests[r] = <<>> /\ task[r].pc = "none"
          /\ opc \in {"start", "validated", "primary_ready", "raised"}
          /\ opc = "raised" => result.kind = "raised"
    /\ (\E r \in Reviewers : task[r].pc # "none") =>
          \A r \in Launched : cfg[r].model # None

\* the secondary's budget is invalid after the primary's configuration was resolved
C2_Witness ==
    /\ settings.secondary_enabled
    /\ ~C2_Fails(meta["primary"])
    /\ meta["secondary"] = MetaTooSmall
    /\ cfg["primary"].model # None
    /\ opc = "raised"
    /\ result.exc.cls = "RuntimeError"

\* reviewer r made one completion call and it threw
C3_Threw(r) ==
    /\ task[r].pc = "done"
    /\ task[r].exc \in CompletionExceptions
    /\ Len(requests[r]) = 1

\* C3: with both reviewers enabled, one throwing on its completion call and the
\* other succeeding, the returned document has a Primary and a Secondary section,
\* exactly one outcome is ok, and the synthesized summary holds the failing
\* reviewer's error message.
C3_PartialFailure ==
    \A f \in Reviewers :
        (/\ settings.secondary_enabled
         /\ opc = "returned"
         /\ C3_Threw(f)
         /\ outcome[Other(f)].ok) =>
            /\ result.kind = "doc"
            /\ result.sections =
                   <<"Primary Reviewer", "Secondary Reviewer", "Synthesized Summary">>
            /\ Len(result.secondary) = 1
            /\ outcome[f].ok # outcome[Other(f)].ok
            /\ _synthesize(outcome["primary"], outcome["secondary"]).errors
                   = <<Msg(_exc_message(task[f].exc), 0)>>
            /\ result.summary.errors = <<Msg(redact_text(_exc_message(task[f].exc)), 0)>>

\* the primary threw an exception without message, the secondary succeeded
C3_Witness ==
    /\ settings.secondary_enabled
    /\ opc = "returned"
    /\ C3_Threw("primary")
    /\ task["primary"].exc.msg = ""
    /\ outcome["secondary"].ok

\* the mirrored case
C3_WitnessSecondary ==
    /\ settings.secondary_enabled
    /\ opc = "returned"
    /\ C3_Threw("secondary")
    /\ outcome["primary"].ok

\* C4: every exception raised in a single reviewer run ends the run with an
\* outcome that has ok = false, an error message and a formatted error block,
\* and no reviewer task ever raises to the orchestrator.
C4_Contained ==
    \A r \in Reviewers :
        /\ task[r].pc # "raised"
        /\ (task[r].pc = "done" /\ task[r].exc # NoExc) =>
              /\ ~outcome[r].ok
              /\ outcome[r].error # NoError
              /\ outcome[r].markdown.kind = "error_block"

\* the ValueError of the file embedding reached the caller of the request
C4_Propagated ==
    /\ opc = "raised"
    /\ result = Raised(PathValueError)
    /\ outcome["primary"] = NoOutcome

\* the reviewer deadline of r passed during its run
C5_TimedOut(r) == task[r].pc = "done" /\ task[r].exc = ReviewerTimeoutError

\* C5: a reviewer whose deadline passes yields an outcome with ok = false and the
\* error 'Reviewer timed out after <N>s'; the step that times it out changes
\* nothing of the sibling; and the returned document includes the sibling's outcome.
C5_TimeoutIsolated ==
    /\ [](\A r \in Reviewers :
             C5_TimedOut(r) =>
                /\ ~outcome[r].ok
                /\ outcome[r].error = Msg("Reviewer timed out after {n}s", ReviewerTimeoutSeconds)
                /\ outcome[r].markdown.kind = "error_block"
                /\ (settings.secondary_enabled /\ opc = "returned") =>
                      /\ Len(result.secondary) = 1
                      /\ LET sib == IF r = "primary" THEN result.secondary[1]
                                    ELSE result.primary
                         IN /\ sib.model = outcome[Other(r)].model
                            /\ sib.markdown.kind = outcome[Other(r)].markdown.kind
                            /\ sib.markdown.content = outcome[Other(r)].markdown.content)
    /\ [][\A r \in Reviewers :
             (~C5_TimedOut(r) /\ C5_TimedOut(r)') =>
                /\ task'[Other(r)] = task[Other(r)]
                /\ outcome'[Other(r)] = outcome[Other(r)]
                /\ session'[Other(r)] = session[Other(r)]
                /\ running'[Other(r)] = running[Other(r)]
                /\ loop'[Other(r)] = loop[Other(r)]
                /\ opc' = opc]_vars

\* the primary timed out, the secondary went on to succeed, the document was returned
C5_Witness ==
    /\ settings.secondary_enabled
    /\ opc = "returned"
    /\ C5_TimedOut("primary")
    /\ outcome["secondary"].ok
    /\ Len(requests["secondary"]) > 1

\* C8: a reviewer whose model metadata lacks "tools" gets a configuration with tool
\* calling disabled, no bridge handle and a disabled reason; none of its completion
\* requests carries tools or a tool choice; no bridge tool runs for it.
C8_NoToolsWithoutCapability ==
    \A r \in Reviewers :
        (cfg[r].model # None /\ "tools" \notin meta[r].supported_parameters) =>
            /\ ~cfg[r].tool_calling_supported
            /\ ~cfg[r].has_ctx
            /\ cfg[r].serena_disabled_reason # None
            /\ \A i \in 1..Len(requests[r]) :
                  ~requests[r][i].tools /\ requests[r][i].tool_choice = None
            /\ executed[r] = 0
            /\ lastTool[r].n = 0
            /\ running[r] = NoCall /\ orphans[r] = <<>>
            /\ session[r].used_tools = {} /\ session[r].total_chars_emitted = 0

\* a model without "tools" answered with tool calls in a repository that has .serena
C8_Witness ==
    \E r \in Reviewers :
        /\ "tools" \notin meta[r].supported_parameters
        /\ env.serena
        /\ root = RepoDir
        /\ outcome[r].done
        /\ outcome[r].ok
        /\ outcome[r].markdown.note

\* the root the request resolves to lies in a blocklisted system directory
C9_Blocklisted(repo) == \E b \in BlockedPrefixes : IsPrefix(b, repo)

\* C9: a request whose only path resolves to a project root inside a blocklisted
\* system directory is rejected with a ValidationError before any reviewer
\* configuration is resolved, and no completion request is issued.
C9_BlocklistedRejected ==
    (/\ Len(req.paths) = 1
     /\ C9_Blocklisted(_resolve_project_root(env, req.paths))
     /\ opc # "start") =>
        /\ opc = "raised"
        /\ result.kind = "raised"
        /\ result.exc.cls = "ValidationError"
        /\ \A r \in Reviewers :
              /\ cfg[r].model = None
              /\ requests[r] = <<>>
              /\ task[r].pc = "none"

\* paths = ["/etc/passwd"] alone was rejected as an unsafe project root
C9_Witness ==
    /\ req.text = None
    /\ req.paths = <<AbsPath(EtcDir \o <<"passwd">>)>>
    /\ env.codex_root = NoDir
    /\ opc = "raised"
    /\ result = Raised(ValidationError("paths resolve to an unsafe project root"))

\* the request is rejected at admission, before any configuration
C10_Rejected ==
    /\ opc = "raised"
    /\ result.kind = "raised"
    /\ result.exc.cls = "ValidationError"
    /\ \A r \in Reviewers : cfg[r].model = None /\ requests[r] = <<>> /\ task[r].pc = "none"

\* C10 as stated: every request whose resolved root is dangerous is rejected before
\* any reviewer is invoked, whether it has paths, inline text only, or both.
C10_AnyShapeRejected ==
    (opc # "start" /\ is_dangerous_repo_root(_resolve_project_root(env, req.paths))) =>
        C10_Rejected

\* C10: a request that supplies paths (with or without inline text) and whose
\* resolved root is dangerous is rejected before any reviewer is invoked; a request
\* with inline text only is never rejected for its root.
C10_PathShapesRejected ==
    /\ (/\ opc # "start"
        /\ req.paths # <<>>
        /\ is_dangerous_repo_root(_resolve_project_root(env, req.paths))) =>
           C10_Rejected
    /\ (req.paths = <<>> /\ req.text = "ok" /\ opc # "start") => root # NoDir

\* a request with text and paths whose root is the home directory was rejected
C10_Witness ==
    /\ req.text = "ok"
    /\ req.paths # <<>>
    /\ _resolve_project_root(env, req.paths) = HomeDir
    /\ C10_Rejected

\* a text-only request whose root is the home directory went on to its reviewer
C10_TextOnlyAdmitted ==
    /\ req.paths = <<>>
    /\ root = HomeDir
    /\ outcome["primary"].done

-----------------------------------------------------------------------------
(* Properties of the lone bridge session *)

\* C6: until an activate_project call has succeeded in a session, a call to any
\* other tool fails with a tool error and performs no bridge operation, and the
\* session records no tool name, memory or path.
C6_ActivationGate ==
    \A r \in Reviewers :
        LET s == session[r]
            l == lastTool[r]
        IN /\ s.activated_project = None =>
                 /\ s.used_tools = {}
                 /\ s.used_memories = {}
                 /\ s.used_paths = {}
                 /\ s.total_chars_emitted = 0
           /\ (l.n > 0 /\ l.pre = None /\ l.call.name # "activate_project") =>
                 /\ l.kind = "toolerr"
                 /\ ~l.op
                 /\ s.activated_project = None

\* a well-formed read_file was refused before activation, after another refused call
C6_Witness ==
    LET l == lastTool["primary"]
    IN /\ l.n >= 2
       /\ l.pre = None
       /\ l.call.name = "read_file"
       /\ l.call.json = "object"
       /\ l.kind = "toolerr"

C7_WitnessRejected ==
    LET l == lastTool["primary"]
    IN /\ l.call.name = "activate_project"
       /\ l.call.project = StrArg("other-project")
       /\ l.pre = None
       /\ l.kind = "toolerr"
       /\ session["primary"].activated_project = None

-----------------------------------------------------------------------------
(* Properties of one request, continued *)

\* C11: with the secondary reviewer disabled only the primary runs: no
\* configuration is resolved, no task is started and no completion request is
\* issued for the secondary, and a returned document has the sections Primary
\* Reviewer and Synthesized Summary only.
C11_SecondaryDisabled ==
    ~settings.secondary_enabled =>
        /\ cfg["secondary"].model = None
        /\ task["secondary"].pc = "none"
        /\ requests["secondary"] = <<>>
        /\ ~outcome["secondary"].done
        /\ opc = "returned" =>
              /\ result.sections = <<"Primary Reviewer", "Synthesized Summary">>
              /\ result.secondary = <<>>
              /\ result.primary.model = outcome["primary"].model

\* a request with the secondary disabled returned its document after a primary
\* run that used tools
C11_Witness ==
    /\ ~settings.secondary_enabled
    /\ opc = "returned"
    /\ outcome["primary"].ok
    /\ executed["primary"] > 0

-----------------------------------------------------------------------------
(* Properties of TokenBudget *)

\* C12: for all integers, validate() succeeds exactly when context > 0, output > 0,
\* overhead >= 0 and context > output + overhead; then input_budget_tokens is
\* context - output - overhead, which is positive; otherwise it fails with a
\* budget error.
C12_ValidateExact ==
    LET c == budget.effective_context_length
        o == budget.effective_output_budget
        h == budget.overhead_tokens
        valid == c > 0 /\ o > 0 /\ h >= 0 /\ c > o + h
    IN result # NoResult =>
          /\ valid => /\ result.kind = "budget"
                      /\ result.input_budget_tokens = c - o - h
                      /\ result.input_budget_tokens > 0
          /\ ~valid => /\ result.kind = "raised"
                       /\ result.exc.cls = "TokenBudgetError"

\* a budget that satisfies the inequality but has a non-positive output was refused
C12_Witness ==
    /\ budget.effective_context_length > budget.effective_output_budget + budget.overhead_tokens
    /\ budget.effective_output_budget <= 0
    /\ budget.overhead_tokens > 0
    /\ result.kind = "raised"

\* the smallest valid budget was accepted
C12_WitnessValid ==
    /\ budget = [effective_context_length |-> 2, effective_output_budget |-> 1,
                 overhead_tokens |-> 0]
    /\ result.kind = "budget"
    /\ result.input_budget_tokens = 1

-----------------------------------------------------------------------------
(* Properties of the bridge session's output caps *)

\* C13: in every reachable state of a session, after any sequence or interleaving
\* of tool calls, the emitted-character counter never exceeds the total cap and
\* no step decreases it.
C13_CounterBounded ==
    /\ [](session["primary"].total_chars_emitted <= session["primary"].limits.max_total_chars)
    /\ [][session'["primary"].total_chars_emitted >= session["primary"].total_chars_emitted]_vars

\* the counter stands above the total cap after the thread's write
C13_AboveCap ==
    /\ worker.pc = "returned"
    /\ lastTool["primary"].kind = "ok"
    /\ session["primary"].total_chars_emitted > session["primary"].limits.max_total_chars

\* C13 for calls that run one after the other: the counter stays within the cap
C13_SequentialWithinCap ==
    session["primary"].total_chars_emitted <= session["primary"].limits.max_total_chars

\* the state of the counter decides neither whether a call succeeds nor how it fails
C14_ExhaustionNeverFails ==
    LET s == session["primary"]
        fresh == [s EXCEPT !.total_chars_emitted = 0]
    IN \A c \in BridgeCalls : \A fs \in FsFor(c.name), len \in BridgeOutLens :
          call_tool(s, c, fs, len).kind = call_tool(fresh, c, fs, len).kind

C14_WitnessExhausted ==
    /\ opc = "bridge"
    /\ lastTool["primary"].n = MaxBridgeCalls
    /\ lastTool["primary"].kind = "ok"
    /\ lastTool["primary"].call.name = "read_file"
    /\ lastTool["primary"].out = 0
    /\ session["primary"].total_chars_emitted = session["primary"].limits.max_total_chars

-----------------------------------------------------------------------------
(* Properties of the tool loop's handling of bridge failures *)

\* C15: every failure of a bridge operation, a failure of the underlying file or
\* search operation included, is turned into an error payload fed back as the
\* call's tool result; it never makes the reviewer run fail.
C15_FailuresRecovered ==
    \A r \in Reviewers :
        /\ task[r].exc # ToolCrash
        /\ (lastTool[r].kind = "crash" => outcome[r] = NoOutcome \/ outcome[r].ok)

\* a run that ended as failed on the exception of a file operation of the bridge
C15_RunFailed ==
    \E r \in Reviewers :
        /\ task[r].pc = "done"
        /\ task[r].exc = ToolCrash
        /\ lastTool[r].kind = "crash"
        /\ lastTool[r].call.name = "read_project_overview"
        /\ outcome[r] = OutcomeFailed(cfg[r], ToolCrash)
        /\ \A i \in DOMAIN msgs[r] : ~(msgs[r][i].role = "tool" /\ msgs[r][i].name = "read_project_overview")

\* a SerenaToolError is fed back as the call's tool message and the run goes on
C15_ToolErrorFedBack ==
    \A r \in Reviewers :
        (lastTool[r].kind = "toolerr" /\ task[r].pc = "tools" /\ msgs[r] # <<>>)
            => task[r].exc = NoExc

\* C16: a bridge tool run in the worker pool (never one of the two inline tools)
\* that does not finish within the tool timeout gets the payload `tool call timed
\* out after <T>s` appended as its tool message; the run is not ended and goes on
\* with the tool loop.
C16_ToolTimeoutReported ==
    /\ [](\A r \in Reviewers : task[r].pc = "tool_wait" => running[r].name \notin InlineTools)
    /\ [][\A r \in Reviewers :
            (/\ task[r].pc = "tool_wait"
             /\ task'[r] # task[r]
             /\ lastTool'[r] = lastTool[r]
             /\ opc' = opc
             /\ task'[r].exc # ReviewerTimeoutError)
            => /\ msgs'[r] = Append(msgs[r],
                      [role |-> "tool", name |-> running[r].name, id |-> running[r].id,
                       kind |-> "timeout",
                       error |-> Msg("tool call timed out after {n}s", ToolTimeoutSeconds)])
               /\ task'[r] = [pc |-> "tools", exc |-> NoExc]
               /\ outcome'[r] = outcome[r]
               /\ loop'[r] = loop[r]]_vars

\* after a timed-out tool the loop sent its next completion request
C16_Witness ==
    \E r \in Reviewers :
        /\ task[r].pc = "awaiting"
        /\ msgs[r] # <<>>
        /\ msgs[r][Len(msgs[r])].kind = "timeout"
        /\ msgs[r][Len(msgs[r])].name \notin InlineTools
        /\ orphans[r] # <<>>
        /\ outcome[r] = NoOutcome

-----------------------------------------------------------------------------
(* Properties of the returned document *)

\* the texts of a returned document: reviewer bodies, error blocks, summary errors
DocTexts(doc) ==
    {doc.primary.markdown.content, doc.primary.markdown.error.fmt}
    \cup {doc.secondary[i].markdown.content : i \in 1..Len(doc.secondary)}
    \cup {doc.secondary[i].markdown.error.fmt : i \in 1..Len(doc.secondary)}
    \cup {doc.summary.errors[i].fmt : i \in 1..Len(doc.summary.errors)}

\* TRUE when a reviewer's outcome carries a text the redaction function changes
C17_SecretInOutcome ==
    \E r \in Launched : outcome[r].done /\ ~outcome[r].ok /\ outcome[r].error.fmt = SecretText

\* C17: every document a review returns, with one or two reviewers, succeeded or
\* failed, is the redaction function applied to the whole aggregated document:
\* every text of it is one the redaction function leaves alone, and the rest of
\* the document is the aggregation of the outcomes.
C17_EgressRedacted ==
    opc = "returned" =>
        LET secondary == IF settings.secondary_enabled THEN outcome["secondary"] ELSE NoOutcome
            aggregated == format_aggregated_output(
                              _append_disclosure(outcome["primary"]),
                              IF secondary.done THEN <<_append_disclosure(secondary)>> ELSE <<>>,
                              _synthesize(outcome["primary"], secondary))
        IN /\ result.kind = "doc"
           /\ \A t \in DocTexts(result) : redact_text(t) = t /\ t # SecretText
           /\ DocTexts(result) = {redact_text(t) : t \in DocTexts(aggregated)}
           /\ result.sections = aggregated.sections
           /\ Len(result.secondary) = Len(aggregated.secondary)
           /\ result.summary.head = aggregated.summary.head

\* two reviewers, one failed on a message holding a key: the document came back
C17_Witness ==
    /\ opc = "returned"
    /\ settings.secondary_enabled
    /\ C17_SecretInOutcome
    /\ RedactedText \in DocTexts(result)

\* one reviewer, failed on a message holding a key
C17_WitnessSingle ==
    /\ opc = "returned"
    /\ ~settings.secondary_enabled
    /\ C17_SecretInOutcome
    /\ RedactedText \in DocTexts(result)

\* a document of reviewers that all succeeded
C17_WitnessAllOk ==
    /\ opc = "returned"
    /\ \A r \in Launched : outcome[r].ok

-----------------------------------------------------------------------------
(* Properties of the completion client's semaphore *)

\* the reviewers whose completion request is in flight
InFlight == {r \in Reviewers : task[r].pc = "awaiting"}

\* C18: at every moment the number of completion requests in flight through the
\* client is at most max_concurrent_requests, however many reviewers and tool
\* loops run.
C18_BoundedInFlight ==
    /\ Cardinality(InFlight) <= settings.max_concurrent_requests
    /\ sem >= 0

\* two reviewers and one permit: one request in flight, the other task waiting
C18_Witness ==
    /\ settings.secondary_enabled
    /\ settings.max_concurrent_requests = 1
    /\ task["primary"].pc = "awaiting"
    /\ task["secondary"].pc = "acquiring"
    /\ sem = 0
    /\ loop["primary"].tools

\* two permits: both requests in flight at once
C18_WitnessBoth ==
    /\ settings.max_concurrent_requests = 2
    /\ InFlight = Reviewers
    /\ sem = 0

-----------------------------------------------------------------------------
(* Properties of the model-metadata cache *)

\* TRUE when client m has nothing cached or its cache is as old as the ttl
CacheExpired(m) == ~m.has_cache \/ m.now - m.cache_at >= TtlSeconds

\* C19: get_model never answers from a stale cache or with default metadata.  With
\* the cache empty or as old as the time-to-live and the fetch failing it raises a
\* metadata error; with the requested id absent from the list it raises a
\* metadata error; what it returns is the listed metadata of that id, out of a
\* cache younger than the time-to-live.
C19_MissOrFailureRaises ==
    [][(opc = "metadata" /\ models'.now = models.now) =>
        /\ (CacheExpired(models) /\ result'.fetch = "failed") =>
              /\ result'.kind = "raised"
              /\ result'.exc.cls = "ModelMetadataError"
              /\ models'.cached = models.cached
              /\ models'.cache_at = models.cache_at
        /\ CacheExpired(models) => result'.fetch # "none"
        /\ (result'.fetch # "failed" /\ \A x \in models'.cached : x.id # result'.id) =>
              /\ result'.kind = "raised"
              /\ result'.exc.cls = "ModelMetadataError"
        /\ result'.kind = "metadata" =>
              /\ result'.fetch # "failed"
              /\ ~CacheExpired(models')
              /\ result'.model \in models'.cached
              /\ result'.model.id = result'.id
              /\ result'.model.context_length > 0]_vars

\* an expired cache holding the requested model, and the fetch failed: an error
C19_Witness ==
    /\ opc = "metadata"
    /\ result.kind = "raised"
    /\ result.fetch = "failed"
    /\ models.has_cache
    /\ models.now - models.cache_at >= TtlSeconds
    /\ \E x \in models.cached : x.id = result.id

\* a fresh list without the requested id: an error
C19_WitnessAbsent ==
    /\ opc = "metadata"
    /\ result.kind = "raised"
    /\ result.fetch = "ok"
    /\ models.cached # {}
    /\ \A x \in models.cached : x.id # result.id

\* a cache hit
C19_WitnessHit ==
    /\ opc = "metadata"
    /\ result.kind = "metadata"
    /\ result.fetch = "none"
    /\ models.now > models.cache_at

-----------------------------------------------------------------------------
(* Properties of the propagation of failures *)

\* TRUE once a reviewer task was created
C20_Launched == \E r \in Reviewers : task[r].pc # "none"

\* C20: only a ValidationError or a pre-flight budget/metadata error aborts the
\* request, and only before any model call; once reviewers have been launched
\* every failure (the overall request deadline included) degrades to a partial
\* result and the request does not raise.
C20_OnlyPreflightAborts ==
    opc = "raised" =>
        /\ ~C20_Launched
        /\ \A r \in Reviewers : requests[r] = <<>>
        /\ result.exc.cls \in {"ValidationError", "RuntimeError"}

\* the request deadline passed while a completion request was in flight: the
\* caller got a RuntimeError and no document
C20_DeadlineRaised ==
    /\ opc = "raised"
    /\ result = Raised(RuntimeError("Tool call timed out"))
    /\ \E r \in Launched : task[r].pc = "cancelled" /\ requests[r] # <<>>

\* after the launch the request raises on the deadline or on the exception of a
\* reviewer task that failed to assemble its prompt, and on nothing else
C20_RaisesAfterLaunch ==
    (opc = "raised" /\ C20_Launched) =>
        \/ result = Raised(RuntimeError("Tool call timed out"))
        \/ result = Raised(PathValueError)

\* transport errors, tool errors and reviewer timeouts end in a document
C20_WitnessDegraded ==
    /\ opc = "returned"
    /\ result.kind = "doc"
    /\ \E r \in Launched : task[r].exc = ReviewerTimeoutError
    /\ \E r \in Launched : task[r].exc \in CompletionExceptions

-----------------------------------------------------------------------------
(* Properties of request validation *)

\* TRUE when the request under validation supplies a non-empty list of non-blank paths
C21_SuppliesPaths ==
    /\ args.paths.t = "list"
    /\ Len(args.paths.s) > 0
    /\ \A i \in 1..Len(args.paths.s) :
          args.paths.s[i].t = "str" /\ args.paths.s[i].s \notin BlankStrings

\* C21: both review operations reject with a ValidationError every request that
\* supplies neither the primary text field nor a non-empty list of non-blank
\* paths; the either-or check fails only when both are missing, and a paths-only
\* request is accepted.
C21_TextOrPathsRequired ==
    (opc = "schemas" /\ result # NoResult) =>
        LET either == Raised(ValidationError(
                          IF args.tool = "system_design_review"
                          THEN "Either proposal or paths must be provided"
                          ELSE "Either code or paths must be provided"))
        IN /\ (args.text.t = "none" /\ ~C21_SuppliesPaths) =>
                  result.kind = "raised" /\ result.exc.cls = "ValidationError"
           /\ result = either <=> (args.text.t = "none" /\ args.paths.t = "none")
           /\ (args.text.t = "none" /\ C21_SuppliesPaths) =>
                  /\ result.kind = "request"
                  /\ result.text = None
                  /\ Len(result.paths) = Len(args.paths.s)
           /\ result.kind = "request" => result.text # None \/ result.paths # <<>>

\* neither field supplied: rejected by the either-or check
C21_Witness ==
    /\ opc = "schemas"
    /\ args.text.t = "none"
    /\ args.paths.t = "none"
    /\ args.tool = "system_design_review"
    /\ result = Raised(ValidationError("Either proposal or paths must be provided"))

\* a paths-only request accepted by code_review
C21_WitnessPathsOnly ==
    /\ opc = "schemas"
    /\ args.tool = "code_review"
    /\ args.text.t = "none"
    /\ result.kind = "request"
    /\ result.paths = <<"a.py", "b.py">>

\* no text and an empty list of paths: rejected by the check on paths
C21_WitnessEmptyList ==
    /\ opc = "schemas"
    /\ args.text.t = "none"
    /\ args.paths.t = "list"
    /\ Len(args.paths.s) = 0
    /\ result.kind = "raised"

-----------------------------------------------------------------------------
(* Properties of path resolution *)

\* TRUE when the path string under resolution has a ".." between separators of
\* the platform (or at an end of the string)
C22_HasParentSegment ==
    \E i \in 1..Len(args.path_str) :
        /\ args.path_str[i] = ".."
        /\ i = 1 \/ args.path_str[i - 1] \in Seps(args.os)
        /\ i = Len(args.path_str) \/ args.path_str[i + 1] \in Seps(args.os)

C22_WitnessAbsolute ==
    /\ opc = "paths"
    /\ args.os = "posix"
    /\ args.path_str # <<>>
    /\ Head(args.path_str) = "/"
    /\ C22_HasParentSegment
    /\ result = Raised([cls |-> args.cls, msg |-> "path traversal is not allowed"])

\* a relative path without parent segment that a symbolic link takes outside
C22_WitnessLink ==
    /\ opc = "paths"
    /\ args.path_str = <<"link", "/", "passwd">>
    /\ result = Raised([cls |-> args.cls, msg |-> "path is outside repo root"])

\* a path returned under the root
C22_WitnessReturned ==
    /\ opc = "paths"
    /\ result.kind = "path"
    /\ args.repo_root = RepoSubDir
    /\ result.path = RepoSubDir \o <<"src", "b.py">>

\* on POSIX the backslash is a character of a file name: `..\x.py` names a file
\* of the root directory
C22_PosixBackslashIsName ==
    /\ opc = "paths"
    /\ args.os = "posix"
    /\ args.path_str = <<"..", "\\", "x.py">>
    /\ result.kind = "path"
    /\ result.path = args.repo_root \o <<"..\\x.py">>

-----------------------------------------------------------------------------
(* Properties of read_file *)

\* TRUE when head and tail are each unset or a line count
C23_Counts ==
    /\ args.head.t = "none" \/ (args.head.t = "int" /\ args.head.n >= 0)
    /\ args.tail.t = "none" \/ (args.tail.t = "int" /\ args.tail.n >= 0)

\* C23: read_file on a file above the size ceiling fails with a tool error when
\* neither head nor tail is supplied; with a bound supplied it returns only the
\* first head lines and/or the last tail lines, with the omitted marker between
\* them when both are requested.
C23_LargeFileSliced ==
    (opc = "read_file" /\ result # NoResult /\ args.large /\ C23_Counts) =>
        LET first == IF args.head.t = "int"
                     THEN [i \in 1..Min(args.head.n, Len(args.lines)) |-> args.lines[i]]
                     ELSE <<>>
            k == IF args.tail.t = "int" THEN Min(args.tail.n, Len(args.lines)) ELSE 0
            last == [i \in 1..k |-> args.lines[Len(args.lines) - k + i]]
        IN /\ (args.head.t = "none" /\ args.tail.t = "none") =>
                  result.kind = "raised" /\ result.exc.cls = "SerenaToolError"
           /\ (args.head.t = "int" /\ args.tail.t = "none") =>
                  result.kind = "content" /\ result.content = first
           /\ (args.head.t = "none" /\ args.tail.t = "int") =>
                  result.kind = "content" /\ result.content = last
           /\ (args.head.t = "int" /\ args.tail.t = "int") =>
                  result.kind = "content" /\ result.content = first \o <<OmittedMarker>> \o last

\* head 2 and tail 0 on a large file of 4 lines: lines 1 and 2, and no marker
C23_NoMarker ==
    /\ opc = "read_file"
    /\ args.large
    /\ Len(args.lines) = 4
    /\ args.head.t = "int" /\ args.head.n = 2
    /\ args.tail.t = "int" /\ args.tail.n = 0
    /\ result.kind = "content"
    /\ result.content = <<1, 2>>

\* what holds: the marker stands between head and tail lines exactly when a head
\* count and a positive tail count are given
C23_MarkerWhenTailPositive ==
    (opc = "read_file" /\ result # NoResult /\ args.large /\ C23_Counts
         /\ result.kind = "content") =>
        (OmittedMarker \in Range(result.content))
            <=> (args.head.t = "int" /\ args.tail.t = "int" /\ args.tail.n > 0)

\* head 0 and tail 2: the marker, then the last two lines
C23_WitnessHeadZero ==
    /\ opc = "read_file"
    /\ args.large
    /\ Len(args.lines) = 4
    /\ args.head.t = "int" /\ args.head.n = 0
    /\ result.kind = "content"
    /\ result.content = <<OmittedMarker, 3, 4>>

-----------------------------------------------------------------------------
(* Properties of Settings.from_env *)

\* TRUE when the reviewer timeout read from the environment is n
C24_ReviewerIs(n) ==
    \/ args.reviewer.t \in {"unset", "empty"} /\ n = DefaultReviewerTimeout
    \/ args.reviewer.t = "int" /\ args.reviewer.n = n

C24_WitnessDerived ==
    /\ opc = "settings"
    /\ args.reviewer.t = "int" /\ args.reviewer.n = 2
    /\ args.tool.t = "unset"
    /\ result.kind = "settings"
    /\ result.openrouter_tool_call_timeout_seconds = 62

\* both unset: loaded with 300 and 360
C24_WitnessDefaults ==
    /\ opc = "settings"
    /\ args.reviewer.t = "unset"
    /\ args.tool.t = "unset"
    /\ result.kind = "settings"
    /\ result.openrouter_reviewer_timeout_seconds = 300
    /\ result.openrouter_tool_call_timeout_seconds = 360

-----------------------------------------------------------------------------
(* Termination of a reviewer run *)

InLoop(r) == task[r].pc \in {"acquiring", "awaiting", "tools", "tool_wait"}

C25_WitnessNoBudget ==
    /\ settings.max_tool_calls = 0
    /\ Len(requests["primary"]) = 2
    /\ task["primary"].pc = "done"
    /\ outcome["primary"].ok

\* a run the request deadline cancelled: it has no outcome
C25_WitnessCancelled ==
    /\ task["primary"].pc = "cancelled"
    /\ requests["primary"] # <<>>
    /\ outcome["primary"] = NoOutcome

-----------------------------------------------------------------------------
(* Finalization of the tool loop *)

\* the conversation of reviewer r holds the instruction to answer now
Finalized(r) == \E i \in 1..Len(msgs[r]) : msgs[r][i] = _build_system_message("finalize")

\* C26: a response with tool calls that arrives when the budget is spent executes
\* no tool, appends one system instruction to answer now, and every completion
\* request sent from then on carries no tool list and no tool choice.
C26_FinalizesOnSpentBudget ==
    [][\A r \in Reviewers :
          /\ (CompletionReturnsToolCalls(r) /\ cfg[r].has_ctx /\ loop[r].tools
                  /\ loop[r].remaining <= 0) =>
                /\ executed'[r] = executed[r]
                /\ session'[r] = session[r]
                /\ running'[r] = NoCall
                /\ msgs'[r] = Append(msgs[r], _build_system_message("finalize"))
                /\ Cardinality({i \in 1..Len(msgs'[r]) :
                                   msgs'[r][i] = _build_system_message("finalize")}) = 1
                /\ requests'[r] = Append(requests[r], [tools |-> FALSE, tool_choice |-> None])
          /\ Finalized(r) =>
                /\ executed'[r] = executed[r]
                /\ msgs'[r] = msgs[r]
                /\ requests'[r] # requests[r] =>
                      /\ Len(requests'[r]) > Len(requests[r])
                      /\ \A i \in (Len(requests[r]) + 1)..Len(requests'[r]) :
                            requests'[r][i] = [tools |-> FALSE, tool_choice |-> None]
      ]_vars

\* a run with budget 1 that executed one call, was asked for another, and sent
\* its third request without tools
C26_Witness ==
    /\ settings.max_tool_calls = 1
    /\ executed["primary"] = 1
    /\ Finalized("primary")
    /\ Len(requests["primary"]) = 3
    /\ requests["primary"][3] = [tools |-> FALSE, tool_choice |-> None]
    /\ requests["primary"][2].tools

\* a finalized run whose last response asked for tools again: it ended, and no
\* fourth request was sent
C26_WitnessEnded ==
    /\ settings.max_tool_calls = 1
    /\ Finalized("primary")
    /\ task["primary"].pc = "done"
    /\ outcome["primary"].ok
    /\ outcome["primary"].markdown.note
    /\ Len(requests["primary"]) = 3

\* C27: the tool loop returns only on a completion response without tool calls,
\* and the body is exactly that response's text; after finalization the loop
\* keeps asking until such a response comes.
C27_ReturnsOnTextOnly ==
    \A r \in Reviewers :
        (outcome[r] # NoOutcome /\ outcome[r].ok) =>
            outcome[r].markdown = Body(outcome[r].markdown.content, FALSE)

\* a finalized run whose next response again held tool calls: the loop returned
\* after that response, and the body is its text followed by the note that no
\* tools were available
C27_ReturnedOnToolCalls ==
    /\ Finalized("primary")
    /\ task["primary"].pc = "done"
    /\ outcome["primary"].ok
    /\ outcome["primary"].markdown = Body("## Summary", TRUE)
    /\ Len(requests["primary"]) = settings.max_tool_calls + 2

\* what holds: the loop returns on a response without tool calls, the body being
\* its text, or on a response with tool calls when no tool list is offered (no
\* bridge, or after finalization), the body then carrying the note; a response
\* with tool calls never ends a loop whose tool list is offered, and a finalized
\* loop sends no further request after the one that follows finalization.
C27_ReturnsOnTextOrWithoutTools ==
    [][\A r \in Reviewers :
          /\ (outcome'[r] # NoOutcome /\ outcome'[r].ok) =>
                /\ outcome'[r].markdown.kind = "body"
                /\ outcome'[r].markdown.content \in Contents
                /\ outcome'[r].markdown.note => (~cfg[r].has_ctx \/ Finalized(r)')
                /\ outcome[r] = NoOutcome =>
                      /\ task[r].pc = "awaiting"
                      /\ CompletionReturnsText(r) \/ CompletionReturnsToolCalls(r)
                      /\ CompletionReturnsText(r) => ~outcome'[r].markdown.note
                      /\ (CompletionReturnsToolCalls(r) /\ ~CompletionReturnsText(r))
                             => outcome'[r].markdown.note
          /\ (CompletionReturnsToolCalls(r) /\ cfg[r].has_ctx /\ loop[r].tools) =>
                outcome'[r] = NoOutcome
          /\ Finalized(r) => requests'[r] = requests[r]
      ]_vars

\* a run with the tool list offered that returned on a text response
C27_Witness ==
    /\ task["primary"].pc = "done"
    /\ cfg["primary"].has_ctx
    /\ executed["primary"] > 0
    /\ ~Finalized("primary")
    /\ outcome["primary"].ok
    /\ outcome["primary"].markdown = Body("## Summary", FALSE)

\* a finalized run that returned on a text response
C27_WitnessFinalizedText ==
    /\ Finalized("primary")
    /\ task["primary"].pc = "done"
    /\ outcome["primary"].ok
    /\ outcome["primary"].markdown = Body("", FALSE)

-----------------------------------------------------------------------------
(* Tool choices of successive completion requests *)

\* the request reviewer r sends in this step
Sent(r) == requests'[r][Len(requests'[r])]

\* TRUE when an earlier request of reviewer r forced read_project_overview
OverviewForced(r) ==
    \E i \in 1..Len(requests[r]) : requests[r][i].tool_choice = "read_project_overview"

\* C28: with tools enabled and forcing supported, activate_project is forced on
\* every request sent while no project is activated and budget remains,
\* read_project_overview is forced exactly once, on the first request after
\* activation, and every other request uses 'auto' (a request without tool list
\* carries no choice); without forcing support no request is forced.
C28_PreflightOrder ==
    [][\A r \in Reviewers :
          (requests'[r] # requests[r] /\ cfg[r].has_ctx) =>
              /\ requests'[r] = Append(requests[r], Sent(r))
              /\ Sent(r).tool_choice =
                    IF ~Sent(r).tools THEN None
                    ELSE IF ~cfg[r].tool_choice_supported THEN "auto"
                    ELSE IF session'[r].activated_project = None
                    THEN (IF loop'[r].remaining > 0 THEN "activate_project" ELSE "auto")
                    ELSE IF ~OverviewForced(r) THEN "read_project_overview"
                    ELSE "auto"
      ]_vars

\* budget 1: activate_project was forced and executed, and the first request
\* after activation was sent with 'auto'
C28_OverviewNotForced ==
    /\ settings.max_tool_calls = 1
    /\ task["primary"].pc = "awaiting"
    /\ cfg["primary"].tool_choice_supported
    /\ session["primary"].activated_project # None
    /\ requests["primary"] = <<[tools |-> TRUE, tool_choice |-> "activate_project"],
                               [tools |-> TRUE, tool_choice |-> "auto"]>>

\* what holds: read_project_overview is forced at most once, namely on the first
\* request after activation when budget remains at that request; when the budget
\* is spent by then it is never forced.
C28_PreflightWhileBudget ==
    [][\A r \in Reviewers :
          (requests'[r] # requests[r] /\ cfg[r].has_ctx) =>
              /\ requests'[r] = Append(requests[r], Sent(r))
              /\ Sent(r).tool_choice =
                    IF ~Sent(r).tools THEN None
                    ELSE IF ~cfg[r].tool_choice_supported \/ loop'[r].remaining <= 0 THEN "auto"
                    ELSE IF session'[r].activated_project = None THEN "activate_project"
                    ELSE IF ~OverviewForced(r) THEN "read_project_overview"
                    ELSE "auto"
              /\ (Sent(r).tool_choice = "read_project_overview" /\ requests[r] # <<>>) =>
                    requests[r][Len(requests[r])].tool_choice = "activate_project"
      ]_vars

\* budget 3: activate_project, then read_project_overview, then 'auto' with
\* budget left
C28_Witness ==
    /\ Len(requests["primary"]) = 3
    /\ requests["primary"][1].tool_choice = "activate_project"
    /\ requests["primary"][2].tool_choice = "read_project_overview"
    /\ requests["primary"][3].tool_choice = "auto"
    /\ session["primary"].activated_project # None
    /\ loop["primary"].remaining > 0

\* activation refused: activate_project is forced again
C28_WitnessRepeated ==
    /\ Len(requests["primary"]) >= 2
    /\ requests["primary"][1].tool_choice = "activate_project"
    /\ requests["primary"][2].tool_choice = "activate_project"

\* forcing unsupported: three requests with 'auto'
C28_WitnessUnsupported ==
    /\ Len(requests["primary"]) = 3
    /\ cfg["primary"].has_ctx
    /\ ~cfg["primary"].tool_choice_supported
    /\ session["primary"].activated_project # None
    /\ \A i \in 1..3 : requests["primary"][i].tool_choice = "auto"

-----------------------------------------------------------------------------
(* The conversation of a reviewer run *)

ToolMessages(r) == {i \in 1..Len(msgs[r]) : msgs[r][i].role = "tool"}

\* the call whose result reviewer r is about to append
Executing(r) == IF task[r].pc = "tool_wait" THEN running[r] ELSE Head(loop[r].pending)

\* C29: the tool calls of one turn are executed one after another in listed
\* order; the result of each executed call is appended as exactly one tool
\* message with that call's id and name before the next completion request; the
\* conversation only grows at its end, between two requests by tool messages or
\* by the one finalization system message.
C29_OrderedAppendOnly ==
    /\ [](\A r \in Reviewers :
             /\ \A i \in 1..(Len(loop[r].pending) - 1) :
                   loop[r].pending[i + 1].id = loop[r].pending[i].id + 1
             /\ running[r] # NoCall =>
                   (task[r].pc = "tool_wait"
                       /\ (loop[r].pending # <<>> => Head(loop[r].pending).id = running[r].id + 1))
             /\ task[r].pc \in {"acquiring", "awaiting"} =>
                   Cardinality(ToolMessages(r)) = executed[r])
    /\ [][\A r \in Reviewers :
             /\ (running'[r] # NoCall /\ running[r] = NoCall) =>
                   /\ running'[r] = Head(loop[r].pending)
                   /\ loop'[r].pending = Tail(loop[r].pending)
             /\ (msgs'[r] # msgs[r] /\ msgs[r] # <<>>) =>
                   LET m == msgs'[r][Len(msgs'[r])]
                   IN /\ msgs'[r] = Append(msgs[r], m)
                      /\ m.role \in {"tool", "system"}
                      /\ m.role = "tool" =>
                            /\ m.id = Executing(r).id
                            /\ m.name = Executing(r).name
                            /\ requests'[r] = requests[r]
                            /\ task[r].pc # "tool_wait" =>
                                  loop'[r].pending = Tail(loop[r].pending)
                            /\ m.id = 1 \/ (/\ msgs[r][Len(msgs[r])].role = "tool"
                                            /\ msgs[r][Len(msgs[r])].id = m.id - 1)
                      /\ m.role = "system" =>
                            /\ m = _build_system_message("finalize")
                            /\ ~Finalized(r)
             /\ (requests'[r] # requests[r]) =>
                   /\ running[r] = NoCall
                   /\ task[r].pc # "tool_wait"
       ]_vars

\* a turn of two calls, both executed: tool messages 1 and 2 at the end of the
\* conversation, then the next request
C29_Witness ==
    /\ task["primary"].pc = "awaiting"
    /\ Len(requests["primary"]) = 2
    /\ Len(msgs["primary"]) = 4
    /\ msgs["primary"][3].role = "tool" /\ msgs["primary"][3].id = 1
    /\ msgs["primary"][3].name = "activate_project"
    /\ msgs["primary"][4].role = "tool" /\ msgs["primary"][4].id = 2
    /\ msgs["primary"][4].name = "read_file"

\* a call that timed out in the worker pool: its message is there all the same
C29_WitnessTimeout ==
    /\ task["primary"].pc = "awaiting"
    /\ Len(msgs["primary"]) = 4
    /\ msgs["primary"][4].role = "tool" /\ msgs["primary"][4].id = 2
    /\ msgs["primary"][4].kind = "timeout"

-----------------------------------------------------------------------------
(* The two reviewers of one request *)

\* C30: the reviewers share neither session nor conversation: a tool call made
\* by one reviewer changes only that reviewer's session and message list, also
\* when both use the same model id and the same repository.
C30_SessionsApart ==
    [][\A r \in Reviewers : \A o \in Reviewers \ {r} :
          /\ (lastTool'[r].n # lastTool[r].n \/ executed'[r] # executed[r]
                  \/ running'[r] # running[r]) =>
                /\ session'[o] = session[o]
                /\ msgs'[o] = msgs[o]
                /\ lastTool'[o] = lastTool[o]
                /\ executed'[o] = executed[o]
          /\ (session'[r] # session[r] /\ task[r].pc # "none") =>
                /\ lastTool'[r].n = lastTool[r].n + 1
                /\ session'[o] = session[o]
          /\ (msgs'[r] # msgs[r]) => msgs'[o] = msgs[o]
      ]_vars

\* both reviewers run the same model on the same repository; the primary has
\* activated the project and read a file, the secondary's session is untouched
C30_Witness ==
    /\ task["primary"].pc \in {"awaiting", "acquiring", "tools", "done"}
    /\ task["secondary"].pc \in {"awaiting", "acquiring"}
    /\ cfg["primary"].has_ctx /\ cfg["secondary"].has_ctx
    /\ cfg["primary"].model = cfg["secondary"].model
    /\ session["primary"].repo_root = session["secondary"].repo_root
    /\ session["primary"].activated_project # None
    /\ session["primary"].total_chars_emitted > 0
    /\ session["secondary"] = NewSession(session["secondary"].repo_root,
                                         session["secondary"].limits)
    /\ Len(msgs["secondary"]) = 2
    /\ Len(msgs["primary"]) = 3

\* both sessions activated, each by its own reviewer's call
C30_WitnessBoth ==
    /\ session["primary"].activated_project # None
    /\ session["secondary"].activated_project # None
    /\ executed["primary"] = 1
    /\ executed["secondary"] = 1

-----------------------------------------------------------------------------
(* Tracking on a bridge session *)

\* C31: a bridge call records its tool name, memory name or path only when it
\* succeeds; a call that fails leaves used_tools, used_memories, used_paths,
\* _total_chars_emitted and activated_project unchanged.
C31_TrackedOnlyOnSuccess ==
    [][(opc = "bridge" /\ lastTool'["primary"].n # lastTool["primary"].n) =>
          LET s == session["primary"]
              t == session'["primary"]
              l == lastTool'["primary"]
          IN /\ l.kind # "ok" => t = s
             /\ l.kind = "ok" =>
                   /\ t.used_tools = s.used_tools \cup {l.call.name}
                   /\ s.used_memories \subseteq t.used_memories
                   /\ s.used_paths \subseteq t.used_paths
      ]_vars

\* read_memory("notes") found the file and failed to read it: the call raised,
\* read_memory is not among the used tools, and notes.md is among the used memories
C31_MemoryRecordedOnFailure ==
    /\ opc = "bridge"
    /\ lastTool["primary"].kind = "crash"
    /\ lastTool["primary"].call.name = "read_memory"
    /\ "read_memory" \notin session["primary"].used_tools
    /\ session["primary"].used_memories # {}

\* what holds: a call that raises SerenaToolError leaves the session unchanged
C31_ToolErrorLeavesSession ==
    [][(opc = "bridge" /\ lastTool'["primary"].n # lastTool["primary"].n
           /\ lastTool'["primary"].kind = "toolerr") =>
          session'["primary"] = session["primary"]]_vars

\* TRUE when a successful activate_project c, repeated at once with the same
\* arguments on the session it left, succeeds again with the same activated_project
C32_Idempotent ==
    LET s == session["primary"]
    IN \A c \in {b \in BridgeCalls : b.name = "activate_project"} : \A len \in BridgeOutLens :
          LET once == call_tool(s, c, "ok", len)
              twice == call_tool(once.s, c, "ok", len)
          IN once.kind = "ok" =>
                /\ twice.kind = "ok"
                /\ twice.s.activated_project = once.s.activated_project
                /\ once.s.activated_project # None

\* C32: activate_project is idempotent and activation is permanent: repeating a
\* successful activation with the same argument leaves activated_project
\* unchanged, and no later call, a refused activate_project included, returns an
\* activated session to the unactivated state.
C32_ActivationPermanent ==
    /\ [](opc = "bridge" => C32_Idempotent)
    /\ [][(opc = "bridge" /\ session["primary"].activated_project # None) =>
             /\ session'["primary"].activated_project # None
             /\ (lastTool'["primary"].n # lastTool["primary"].n
                    /\ lastTool'["primary"].kind # "ok") =>
                   session'["primary"].activated_project = session["primary"].activated_project
             /\ (lastTool'["primary"].n # lastTool["primary"].n
                    /\ lastTool["primary"].kind = "ok"
                    /\ lastTool'["primary"].kind = "ok"
                    /\ lastTool["primary"].call.name = "activate_project"
                    /\ lastTool'["primary"].call = lastTool["primary"].call) =>
                   session'["primary"].activated_project = session["primary"].activated_project
         ]_vars

\* the same successful activate_project twice in a row
C32_Witness ==
    /\ opc = "bridge"
    /\ lastTool["primary"].n >= 2
    /\ lastTool["primary"].call.name = "activate_project"
    /\ lastTool["primary"].kind = "ok"
    /\ lastTool["primary"].pre # None
    /\ lastTool["primary"].pre = session["primary"].activated_project

\* an activate_project refused on an activated session, which stays activated
C32_WitnessRefused ==
    /\ opc = "bridge"
    /\ lastTool["primary"].call.name = "activate_project"
    /\ lastTool["primary"].kind = "toolerr"
    /\ lastTool["primary"].pre # None
    /\ session["primary"].activated_project = lastTool["primary"].pre

\* an accepted activate_project with another spelling of the root replaces the
\* recorded project by that spelling
C32_WitnessRespelled ==
    /\ opc = "bridge"
    /\ lastTool["primary"].call.name = "activate_project"
    /\ lastTool["primary"].kind = "ok"
    /\ lastTool["primary"].pre # None
    /\ session["primary"].activated_project # lastTool["primary"].pre

-----------------------------------------------------------------------------
(* The tool bridge handle of a reviewer configuration *)

Prepared(r) == cfg[r].model # None

\* C33: in every resolved reviewer configuration the bridge handle is absent
\* exactly when a disabled reason is set (tool calling unsupported, or no .serena
\* marker), tools are offered exactly when the handle is present, and the reason
\* is written in that reviewer's section of the aggregated output whether the
\* reviewer succeeded or failed.
C33_HandleOrReason ==
    \A r \in Reviewers :
        Prepared(r) =>
            /\ ~cfg[r].has_ctx <=> cfg[r].serena_disabled_reason # None
            /\ cfg[r].serena_disabled_reason =
                   (IF ~supports_tools(meta[r]) THEN "Model does not support tool calling"
                    ELSE IF ~(env.serena /\ root = RepoDir) THEN "No .serena directory detected"
                    ELSE None)
            /\ requests[r] # <<>> => (requests[r][1].tools <=> cfg[r].has_ctx)
            /\ \A i \in 1..Len(requests[r]) : requests[r][i].tools => cfg[r].has_ctx
            /\ (opc = "returned" /\ r = "primary") =>
                   result.primary.note = cfg[r].serena_disabled_reason
            /\ (opc = "returned" /\ r = "secondary" /\ settings.secondary_enabled) =>
                   /\ Len(result.secondary) = 1
                   /\ result.secondary[1].note = cfg[r].serena_disabled_reason

\* a failed reviewer without .serena marker: the note is in its section
C33_Witness ==
    /\ opc = "returned"
    /\ ~outcome["primary"].ok
    /\ ~cfg["primary"].has_ctx
    /\ requests["primary"] # <<>>
    /\ result.primary.note = "No .serena directory detected"

\* a successful reviewer whose model does not support tool calling
C33_WitnessUnsupported ==
    /\ opc = "returned"
    /\ outcome["primary"].ok
    /\ result.primary.note = "Model does not support tool calling"

\* a reviewer with the handle: tools offered, no note
C33_WitnessHandle ==
    /\ opc = "returned"
    /\ cfg["primary"].has_ctx
    /\ requests["primary"][1].tools
    /\ result.primary.note = None

-----------------------------------------------------------------------------
(* The timeout of a completion call *)

\* C34: for every positive reviewer timeout, each completion call is given a
\* timeout strictly shorter than the reviewer's deadline.
C34_CallTimeoutShorter ==
    (opc = "call_timeout" /\ result # NoResult) =>
        result.n < args.reviewer_timeout_seconds

\* reviewer timeout 1: the call gets 1 second, the whole deadline
C34_EqualAtOne ==
    /\ opc = "call_timeout"
    /\ args.reviewer_timeout_seconds = 1
    /\ result.kind = "int"
    /\ result.n = 1

\* what holds: the call timeout is at least 1, never above the deadline, and
\* strictly below it from a reviewer timeout of 2 on
C34_ShorterFromTwo ==
    (opc = "call_timeout" /\ result # NoResult) =>
        /\ result.n >= 1
        /\ result.n <= args.reviewer_timeout_seconds
        /\ args.reviewer_timeout_seconds >= 2 => result.n < args.reviewer_timeout_seconds
        /\ args.reviewer_timeout_seconds > 5 => result.n = args.reviewer_timeout_seconds - 5

-----------------------------------------------------------------------------
(* The length of the user prompt *)

\* C35: the user prompt never exceeds the ceiling min(max input chars,
\* max(input budget tokens, 1) x 3), whatever the ceiling and the assembled
\* length; a longer prompt is cut and ends with the truncation note, and the note
\* is there exactly when the prompt was cut.
C35_WithinCeiling ==
    (opc = "prompt" /\ result # NoResult) =>
        /\ result.user.len <= args.max_user_chars
        /\ result.user.note <=> args.len > args.max_user_chars
        /\ ~result.user.note => result.user.len = args.len

\* a ceiling of 3 characters and an assembled prompt of 10: the prompt sent is
\* the note alone, 55 characters
C35_NoteAboveCeiling ==
    /\ opc = "prompt"
    /\ result # NoResult
    /\ args.max_user_chars = 3
    /\ args.len = 10
    /\ result.user.note
    /\ result.user.kept = 0
    /\ result.user.len = 55

\* what holds: the note is there exactly when the assembled prompt was longer
\* than the ceiling; the prompt sent is within the ceiling whenever the ceiling
\* is at least the length of the note, and is the note alone below that
C35_WithinCeilingOrNote ==
    (opc = "prompt" /\ result # NoResult) =>
        /\ result.user.note <=> args.len > args.max_user_chars
        /\ ~result.user.note => result.user.len = args.len
        /\ result.user.len <= Max(args.max_user_chars, TruncationNoteLen)
        /\ (result.user.note /\ args.max_user_chars >= TruncationNoteLen) =>
              result.user.len = args.max_user_chars

\* a prompt of 80 characters under a ceiling of 60: 5 characters and the note
C35_WitnessCut ==
    /\ opc = "prompt"
    /\ result # NoResult
    /\ args.max_user_chars = 60
    /\ args.len = 80
    /\ result.user.kept = 5
    /\ result.user.len = 60

-----------------------------------------------------------------------------
(* Provider limits in the budget *)

\* the provider of the item declares a context length / a completion limit
DeclaresContext == args.item.top_provider_is_dict /\ args.item.top_provider_context_length # {}
DeclaresCompletion ==
    args.item.top_provider_is_dict /\ args.item.top_provider_max_completion_tokens # {}

\* C36: for every model record of the payload the budget takes effective context
\* length = min(model context length, provider context length when declared) and
\* effective output budget = min(fixed output tokens, provider max completion
\* tokens when declared): no declared provider limit is ignored.
C36_ProviderLimitsApplied ==
    (opc = "item" /\ result # NoResult /\ result.kind = "budget") =>
        /\ result.effective_context_length =
              IF DeclaresContext
              THEN Min(TheOne(args.item.context_length),
                       TheOne(args.item.top_provider_context_length))
              ELSE TheOne(args.item.context_length)
        /\ result.effective_output_budget =
              IF DeclaresCompletion
              THEN Min(args.fixed_output_tokens,
                       TheOne(args.item.top_provider_max_completion_tokens))
              ELSE args.fixed_output_tokens

\* a provider that declares max_completion_tokens 1 and no context length, with
\* 3 fixed output tokens: the output budget is 3
C36_CompletionLimitIgnored ==
    /\ opc = "item"
    /\ result # NoResult
    /\ result.kind = "budget"
    /\ ~DeclaresContext
    /\ args.item.top_provider_max_completion_tokens = {1}
    /\ args.fixed_output_tokens = 3
    /\ result.effective_output_budget = 3

\* what holds: the context limit is always applied, and the completion limit is
\* applied exactly when the provider also declares an integer context length
C36_LimitsWithContext ==
    (opc = "item" /\ result # NoResult /\ result.kind = "budget") =>
        /\ result.effective_context_length =
              IF DeclaresContext
              THEN Min(TheOne(args.item.context_length),
                       TheOne(args.item.top_provider_context_length))
              ELSE TheOne(args.item.context_length)
        /\ result.effective_output_budget =
              IF DeclaresContext /\ DeclaresCompletion
              THEN Min(args.fixed_output_tokens,
                       TheOne(args.item.top_provider_max_completion_tokens))
              ELSE args.fixed_output_tokens

\* both limits declared and both smaller than the model's and the configured
C36_WitnessBoth ==
    /\ opc = "item"
    /\ result # NoResult
    /\ result.kind = "budget"
    /\ args.item.context_length = {3}
    /\ args.item.top_provider_context_length = {2}
    /\ args.item.top_provider_max_completion_tokens = {1}
    /\ args.fixed_output_tokens = 3
    /\ result.effective_context_length = 2
    /\ result.effective_output_budget = 1

-----------------------------------------------------------------------------
(* Permits of the completion client's semaphore *)

\* the permits out are those of the completion calls in flight
PermitsBalanced == sem + Cardinality(InFlight) = settings.max_concurrent_requests

Waiting(r) == task[r].pc = "acquiring"

\* C37: a completion call gives its permit back when it ends, by return, error,
\* timeout or cancellation, so the permits held are always those of the calls in
\* flight, and a reviewer waiting for a permit is eventually served.
C37_WaiterServed ==
    /\ []PermitsBalanced
    /\ \A r \in Reviewers : Waiting(r) ~> (task[r].pc = "awaiting")

\* what holds: the permits held are those of the calls in flight, and a waiting
\* reviewer is served unless its reviewer timeout or the request deadline ends
\* its wait first
C37_WaiterServedOrEnded ==
    /\ []PermitsBalanced
    /\ \A r \in Reviewers :
          Waiting(r) ~> (task[r].pc = "awaiting" \/ task[r].pc \in {"done", "cancelled"})

\* one permit: the primary's call raised and the secondary's request is in flight
C37_Witness ==
    /\ settings.max_concurrent_requests = 1
    /\ task["primary"].pc = "done"
    /\ task["primary"].exc \in CompletionExceptions
    /\ task["secondary"].pc = "awaiting"
    /\ sem = 0

\* one permit, both runs ended by their reviewer timeout: the permit is back
C37_WitnessTimeouts ==
    /\ settings.max_concurrent_requests = 1
    /\ settings.secondary_enabled
    /\ \A r \in Reviewers : task[r].pc = "done" /\ task[r].exc = ReviewerTimeoutError
    /\ sem = 1

\* a reviewer that timed out while it waited for the permit
C37_WitnessEndedWaiting ==
    /\ settings.max_concurrent_requests = 1
    /\ task["secondary"].pc = "done"
    /\ task["secondary"].exc = ReviewerTimeoutError
    /\ Len(requests["secondary"]) = 1
    /\ task["primary"].pc = "awaiting"
    /\ Len(requests["primary"]) = 1
    /\ sem = 0

-----------------------------------------------------------------------------
(* Fetches of the model list *)

\* C38: the model list is fetched only when the cache is empty or as old as the
\* time-to-live; the lookups are serialised, so within the time-to-live any
\* number of them trigger at most one fetch (by the time now there were at most
\* 1 + now / ttl fetches); a failed fetch leaves cache and timestamp unchanged.
C38_OneFetchPerTtl ==
    /\ [](opc = "metadata" => models.fetches <= 1 + (models.now \div TtlSeconds))
    /\ [][(opc = "metadata" /\ models'.now = models.now) =>
            /\ models'.fetches # models.fetches => CacheExpired(models)
            /\ result'.fetch = "failed" =>
                  /\ models'.cached = models.cached
                  /\ models'.cache_at = models.cache_at
                  /\ models'.has_cache = models.has_cache]_vars

\* what holds: a fetch is made exactly when the cache is empty or as old as the
\* time-to-live; one that succeeds stamps the cache with the time of the call, so
\* no lookup fetches until that cache is as old as the time-to-live; one that
\* fails leaves cache and timestamp unchanged, and the next lookup fetches again
C38_FetchOnlyWhenExpired ==
    [][(opc = "metadata" /\ models'.now = models.now) =>
        /\ models'.fetches # models.fetches <=> CacheExpired(models)
        /\ models'.fetches - models.fetches \in {0, 1}
        /\ result'.fetch = "none" <=> models'.fetches = models.fetches
        /\ result'.fetch = "none" => models' = models
        /\ result'.fetch = "ok" =>
              /\ models'.has_cache
              /\ models'.cache_at = models.now
              /\ ~CacheExpired(models')
        /\ result'.fetch = "failed" =>
              /\ models'.cached = models.cached
              /\ models'.cache_at = models.cache_at
              /\ models'.has_cache = models.has_cache
              /\ CacheExpired(models')]_vars

\* two lookups at the same time of the clock, the endpoint failing: two fetches
C38_TwoFetchesAtOnce ==
    /\ opc = "metadata"
    /\ models.now = 0
    /\ models.fetches = 2
    /\ ~models.has_cache

\* one fetch, then a lookup answered from the cache a second later
C38_Witness ==
    /\ opc = "metadata"
    /\ models.fetches = 1
    /\ models.has_cache
    /\ models.now = models.cache_at + 1
    /\ result # NoResult
    /\ result.fetch = "none"

\* a second fetch once the cache is as old as the time-to-live
C38_WitnessRefetched ==
    /\ opc = "metadata"
    /\ models.fetches = 2
    /\ models.has_cache
    /\ models.cache_at = TtlSeconds
    /\ result # NoResult
    /\ result.fetch = "ok"

-----------------------------------------------------------------------------
(* The tracking a ReviewerOutcome discloses *)

\* the tracking fields of outcome oc are those session s holds
DisclosesSession(oc, c, s) ==
    /\ oc.used_serena = UsedSerena(c, s)
    /\ c.has_ctx =>
          /\ oc.serena_activated_project = s.activated_project
          /\ oc.serena_used_tools = s.used_tools
          /\ oc.serena_used_memories = s.used_memories
          /\ oc.serena_used_paths = s.used_paths
    /\ ~c.has_ctx =>
          /\ oc.serena_activated_project = None
          /\ oc.serena_used_tools = {}
          /\ oc.serena_used_memories = {}
          /\ oc.serena_used_paths = {}

\* the step in which the run of reviewer r hands over its outcome
RunEnds(r) == outcome[r] = NoOutcome /\ outcome'[r] # NoOutcome

\* C39: every reviewer outcome, successful, timed out or failed, discloses the
\* flag, the activated project and the used tools, memories and paths that the
\* reviewer's session had recorded when the run ended; the flag is true exactly
\* when the session recorded a tool, a memory or a path.
C39_OutcomeDisclosesSession ==
    [][\A r \in Reviewers :
          RunEnds(r) => DisclosesSession(outcome'[r], cfg[r], session'[r])]_vars

\* a run that failed after its session recorded a tool: nothing is disclosed
C39_FailedRunDisclosesNothing ==
    \E r \in Reviewers :
        /\ task[r].pc = "done"
        /\ task[r].exc \in CompletionExceptions
        /\ cfg[r].has_ctx
        /\ session[r].used_tools # {}
        /\ session[r].activated_project # None
        /\ orphans[r] = <<>>
        /\ ~outcome[r].ok
        /\ ~outcome[r].used_serena
        /\ outcome[r].serena_used_tools = {}
        /\ outcome[r].serena_activated_project = None

\* what holds: the outcomes of returned and of timed-out runs disclose the session
C39_ReturnedAndTimedOutDisclose ==
    [][\A r \in Reviewers :
          (RunEnds(r) /\ (outcome'[r].ok \/ task'[r].exc = ReviewerTimeoutError)) =>
              DisclosesSession(outcome'[r], cfg[r], session'[r])]_vars

\* a timed-out run whose outcome discloses the tools its session recorded
C39_WitnessTimeout ==
    \E r \in Reviewers :
        /\ task[r].pc = "done"
        /\ task[r].exc = ReviewerTimeoutError
        /\ cfg[r].has_ctx
        /\ outcome[r].used_serena
        /\ outcome[r].serena_used_tools # {}

-----------------------------------------------------------------------------
(* Executions on one ToolBridgeSession *)

\* the invocations executing on the session of reviewer r: the one its loop
\* waits for and those whose waiter gave up
ExecutingOn(r) == Len(orphans[r]) + (IF running[r] # NoCall THEN 1 ELSE 0)

\* C40: operations on one ToolBridgeSession never run concurrently: an
\* invocation starts only after every earlier one on that session has stopped,
\* one whose timeout was already reported included, and the tracking fields are
\* read for the ReviewerOutcome only after all invocations of the run stopped.
C40_OneExecutionPerSession ==
    \A r \in Reviewers :
        /\ ExecutingOn(r) <= 1
        /\ outcome[r] # NoOutcome => orphans[r] = <<>>

\* an invocation started while one whose timeout was reported is still executing
C40_TwoExecutions ==
    \E r \in Reviewers :
        /\ task[r].pc = "tool_wait"
        /\ running[r] # NoCall
        /\ orphans[r] # <<>>
        /\ \E i \in ToolMessages(r) : msgs[r][i].kind = "timeout"

\* a session that recorded a tool after the outcome of its run was built
C40_ChangedAfterRead ==
    \E r \in Reviewers :
        /\ task[r].pc = "done"
        /\ outcome[r].ok
        /\ cfg[r].has_ctx
        /\ orphans[r] = <<>>
        /\ outcome[r].serena_used_tools # session[r].used_tools

\* what holds: with no abandoned invocation left, a session is not changed after
\* its outcome was built
C40_QuietOnceStopped ==
    [][\A r \in Reviewers :
          (outcome[r] # NoOutcome /\ orphans[r] = <<>>) => session'[r] = session[r]]_vars

====
